---- MODULE Spec2Model ----
(***************************************************************************)
(* A model of the SBML-to-Rust compilation pipeline of wasm-pk:            *)
(*   - DependencyAnalyzer.classify_rules and its _topological_sort         *)
(*     (src/core/dependency_analyzer.py),                                  *)
(*   - AssignmentRuleProcessor.sort_assignment_rules                       *)
(*     (src/symbolic/assignment_processor.py),                             *)
(*   - OdeSystemBuilder.build_ode_system (src/symbolic/ode_builder.py),    *)
(*   - ParseSBMLFile / SbmlToRustConverter.convert                         *)
(*     (src/sbmlParser/parser.py, src/facade.py).                          *)
(* An expression is represented by what the analysed code reads of it:     *)
(* its set of free symbol names (expr.free_symbols).                       *)
(***************************************************************************)
EXTENDS Integers, Sequences, FiniteSets, TLC

\* ------------------------------------------------------------------ bounds
\* Longest rule list handed to DependencyAnalyzer.classify_rules.
MaxRules == 2

\* Most assignment rules handed to AssignmentRuleProcessor.sort_assignment_rules.
MaxAssignmentRules == 3

\* Most (stoichiometry, species) pairs in the reactions handed to
\* OdeSystemBuilder.build_ode_system, all reactions and both sides together.
MaxStoichPairs == 3

\* Most rules in the SBML document handed to ParseSBMLFile.
MaxDocRules == 2

\* Most call sites in the expressions handed to FunctionInliner.inline.
MaxCallSites == 11

\* Most arguments in a call of the piecewise builder sbml_piecewise.
MaxPiecewiseArgs == 5

\* Most conditional branches of a Piecewise handed to the printer.
MaxBranches == 2

\* Most species of the ODE system handed to JacobianBuilder.
MaxSpecies == 2

\* Most expressions in each list handed to optimize_combined.
MaxExprs == 2

\* Most tokens of a formula string handed to _remove_units.
MaxTokens == 5
MaxReplacements == 3
MaxMergedReactions == 2

\* ------------------------------------------------------- shared vocabulary
\* Names of rule target variables, in declaration order.
VarNames == <<"V1", "V2", "V3", "V4", "V5", "V6">>

RuleVars(n) == {VarNames[i] : i \in 1..n}

\* Every ordering of a finite set: the orders in which Python may iterate it.
Orderings(S) ==
    {s \in [1..Cardinality(S) -> S] : \A i, j \in DOMAIN s : i # j => s[i] # s[j]}

\* The elements of a sequence, as a set.
Range(s) == {s[i] : i \in DOMAIN s}

VARIABLES
    \* --- DependencyAnalyzer (src/core/dependency_analyzer.py)
    species_ids,            \* self.species_ids
    param_ids,              \* self.param_ids
    rules,                  \* classify_rules argument: list of (var, expr)
    external_dynamic_vars,  \* classify_rules argument
    static_vars,            \* classify_rules local
    dynamic_vars,           \* classify_rules local
    classified,             \* classify_rules local
    static_list,            \* classify_rules local
    dynamic_list,           \* classify_rules local
    iteration,              \* classify_rules local (while-loop counter)
    dependencies,           \* classify_rules local, argument of _topological_sort
    defined,                \* _topological_sort local
    remaining,              \* _topological_sort local
    sorted_rules,           \* _topological_sort local; the returned static list
    sort_iteration,         \* _topological_sort local (while-loop counter)
    da_pc,                  \* position inside classify_rules
    \* --- SbmlExpressionParser (src/parsers/expression_parser.py)
    context,                \* self.context: identifier -> symbol name or callable
    \* --- AssignmentRuleProcessor (src/symbolic/assignment_processor.py)
    assignment_rules,       \* sort_assignment_rules argument, in dict order
    parsed_rules,           \* sort_assignment_rules local, in dict order
    sort_dependencies,      \* the dependency graph (dependencies in the source)
    in_degree,              \* _topological_sort local
    queue,                  \* _topological_sort local
    sorted_vars,            \* _topological_sort local
    sort_result,            \* what sort_assignment_rules returned
    ap_pc,                  \* position inside sort_assignment_rules
    \* --- OdeSystemBuilder (src/symbolic/ode_builder.py)
    species_map,            \* self.species_map: species id -> index
    reactions,              \* build_ode_system argument, in dict order
    dy_dt,                  \* build_ode_system local; the list returned
    rxn_index,              \* how many reactions the for loop has processed
    ob_pc,                  \* position inside build_ode_system
    \* --- ParseSBMLFile and SbmlToRustConverter (src/sbmlParser/parser.py, src/facade.py)
    sbml_doc,               \* the SBML document read by ParseSBMLFile
    model_data,             \* the model dictionary (self.model_data)
    cv_rules,               \* convert local assignment_rules
    ode_system,             \* convert local ode_system
    code_blocks,            \* convert local code_blocks
    rust_source,            \* what convert returned
    cv_warnings,            \* the warnings printed during convert
    cv_pc,                  \* position inside ParseSBMLFile / convert
    \* --- FunctionInliner (src/parsers/function_inliner.py)
    functions,              \* self.functions, in dict order
    inline_arg,             \* the expression inline was called with
    expression,             \* inline local: the expression, as a token list
    depth,                  \* inline local (while-loop counter)
    fi_pc,                  \* position inside inline
    \* --- sbml_piecewise (src/parsers/expression_parser.py)
    pw_args,                \* sbml_piecewise argument *args
    pw_pairs,               \* sbml_piecewise local pairs
    pw_i,                   \* the for-loop variable i (0-based)
    pw_pc,                  \* position inside sbml_piecewise
    \* --- CustomRustCodePrinter (src/codegen/rust_printer.py)
    print_expr,             \* the expression handed to RustCodeGenerator.generate
    print_out,              \* the Rust code returned, as a token list
    print_pc,               \* position inside generate
    \* --- JacobianBuilder.compute_sparse_jacobian (src/symbolic/jacobian_builder.py)
    species_list,           \* self.species_list (self.n_species is its length)
    jac_ode_system,         \* compute_sparse_jacobian argument ode_system
    jacobian_elements,      \* compute_sparse_jacobian local
    jac_indices,            \* compute_sparse_jacobian local
    jac_i,                  \* the outer for-loop variable i (0-based)
    jac_j,                  \* the inner for-loop variable j (0-based)
    jac_pc,                 \* position inside compute_sparse_jacobian
    \* --- SymbolicOptimizer.optimize_combined (src/symbolic/optimizer.py)
    optimization_level,     \* self.optimization_level
    opt_ode_system,         \* optimize_combined argument ode_system
    opt_jacobian,           \* optimize_combined argument jacobian
    opt_indices,            \* the (row, col) index of each Jacobian element
    opt_replacements,       \* optimize_combined result: replacements
    reduced_ode,            \* optimize_combined result: reduced_ode
    reduced_jac,            \* optimize_combined result: reduced_jac
    jac_block,              \* generate_jacobian result, one entry per line
    opt_pc,                 \* position: optimize_combined, generate_jacobian
    \* --- RustTemplateManager.assemble_rust_file (src/codegen/template_manager.py)
    components,             \* the code blocks of _generate_code_blocks, by key
    template_parts,         \* assemble_rust_file local: the parts of the file
    asm_pc,                 \* position: _generate_code_blocks, assemble_rust_file
    \* --- the preprocessing stages of _parse_formula_string (src/parsers/expression_parser.py)
    pp_stage,               \* the stage that is applied
    pp_texts,               \* the formula string and the results of the stage so far
    pp_pc,                  \* position: before or after the applications
    \* --- SbmlToRustConverter.__init__ (src/facade.py): the parameter map
    init_model_data,        \* __init__ argument model_data: parameters and reactions
    params_map,             \* self.params_map: parameter name -> value
    merge_pc,               \* position inside __init__
    \* --- RustBlockGenerator result blocks (src/codegen/code_generator.py)
    result_species_list,    \* self.species_list, each id a list of characters
    result_blocks,          \* the code blocks of the result vectors
    result_pc               \* position inside _generate_code_blocks

analyzerVars ==
    <<species_ids, param_ids, rules, external_dynamic_vars, static_vars,
      dynamic_vars, classified, static_list, dynamic_list, iteration,
      dependencies, defined, remaining, sorted_rules, sort_iteration, da_pc>>

sorterVars ==
    <<assignment_rules, parsed_rules, sort_dependencies, in_degree, queue,
      sorted_vars, sort_result, ap_pc>>

odeVars == <<species_map, reactions, dy_dt, rxn_index, ob_pc>>

convVars ==
    <<sbml_doc, model_data, cv_rules, ode_system, code_blocks, rust_source,
      cv_warnings, cv_pc>>

inlinerVars == <<functions, inline_arg, expression, depth, fi_pc>>

piecewiseVars == <<pw_args, pw_pairs, pw_i, pw_pc>>

printerVars == <<print_expr, print_out, print_pc>>

jacobianVars ==
    <<species_list, jac_ode_system, jacobian_elements, jac_indices, jac_i, jac_j, jac_pc>>

optimizerVars ==
    <<optimization_level, opt_ode_system, opt_jacobian, opt_indices, opt_replacements, reduced_ode, reduced_jac, jac_block, opt_pc>>

assemblerVars ==
    <<components, template_parts, asm_pc>>

preprocessVars ==
    <<pp_stage, pp_texts, pp_pc>>

mergeVars ==
    <<init_model_data, params_map, merge_pc>>

resultVars ==
    <<result_species_list, result_blocks, result_pc>>

vars ==
    <<analyzerVars, context, sorterVars, odeVars, convVars, inlinerVars,
      piecewiseVars, printerVars,
      jacobianVars,
      optimizerVars,
      assemblerVars,
      preprocessVars,
      mergeVars,
      resultVars>>

\* What the actions of one component leave alone: the other components.
notAnalyzer == <<context, sorterVars, odeVars, convVars, inlinerVars, piecewiseVars,
      printerVars,
      jacobianVars,
      optimizerVars,
      assemblerVars,
      preprocessVars,
      mergeVars,
      resultVars>>

notSorter == <<analyzerVars, odeVars, convVars, inlinerVars, piecewiseVars,
      printerVars,
      jacobianVars,
      optimizerVars,
      assemblerVars,
      preprocessVars,
      mergeVars,
      resultVars>>

notOde == <<analyzerVars, sorterVars, convVars, inlinerVars, piecewiseVars,
      printerVars,
      jacobianVars,
      optimizerVars,
      assemblerVars,
      preprocessVars,
      mergeVars,
      resultVars>>

notConv == <<analyzerVars, sorterVars, odeVars, inlinerVars, piecewiseVars,
      printerVars,
      jacobianVars,
      optimizerVars,
      assemblerVars,
      preprocessVars,
      mergeVars,
      resultVars>>

notInliner == <<analyzerVars, context, sorterVars, odeVars, convVars, piecewiseVars,
      printerVars,
      jacobianVars,
      optimizerVars,
      assemblerVars,
      preprocessVars,
      mergeVars,
      resultVars>>

notPrinter ==
    <<analyzerVars, context, sorterVars, odeVars, convVars, inlinerVars,
      piecewiseVars,
      jacobianVars,
      optimizerVars,
      assemblerVars,
      preprocessVars,
      mergeVars,
      resultVars>>

notPiecewise == <<analyzerVars, context, sorterVars, odeVars, convVars, inlinerVars,
      printerVars,
      jacobianVars,
      optimizerVars,
      assemblerVars,
      preprocessVars,
      mergeVars,
      resultVars>>

notJacobian ==
    <<analyzerVars,
      context,
      sorterVars,
      odeVars,
      convVars,
      inlinerVars,
      piecewiseVars,
      printerVars,
      optimizerVars,
      assemblerVars,
      preprocessVars,
      mergeVars,
      resultVars>>

notOptimizer ==
    <<analyzerVars,
      context,
      sorterVars,
      odeVars,
      convVars,
      inlinerVars,
      piecewiseVars,
      printerVars,
      jacobianVars,
      assemblerVars,
      preprocessVars,
      mergeVars,
      resultVars>>

notAssembler ==
    <<analyzerVars,
      context,
      sorterVars,
      odeVars,
      convVars,
      inlinerVars,
      piecewiseVars,
      printerVars,
      jacobianVars,
      optimizerVars,
      preprocessVars,
      mergeVars,
      resultVars>>

notPreprocess ==
    <<analyzerVars,
      context,
      sorterVars,
      odeVars,
      convVars,
      inlinerVars,
      piecewiseVars,
      printerVars,
      jacobianVars,
      optimizerVars,
      assemblerVars,
      mergeVars,
      resultVars>>

notMerge ==
    <<analyzerVars,
      context,
      sorterVars,
      odeVars,
      convVars,
      inlinerVars,
      piecewiseVars,
      printerVars,
      jacobianVars,
      optimizerVars,
      assemblerVars,
      preprocessVars,
      resultVars>>

notResult ==
    <<analyzerVars,
      context,
      sorterVars,
      odeVars,
      convVars,
      inlinerVars,
      piecewiseVars,
      printerVars,
      jacobianVars,
      optimizerVars,
      assemblerVars,
      preprocessVars,
      mergeVars>>

\* ===================== DependencyAnalyzer.classify_rules =====================

\* Symbols that are not rule targets: a constant parameter, a species (time
\* takes the same branch, line 62), a dynamic initial assignment and a name
\* known to nobody.
NonRuleSymbols == {"k1", "A", "ia", "u"}

\* The free-symbol sets of the rule expressions that are enumerated: any set of
\* rule targets, alone or together with one symbol that is not a rule target.
ExprSymbols(n) ==
    {d \cup o : d \in SUBSET RuleVars(n), o \in {{}} \cup {{s} : s \in NonRuleSymbols}}

\* rule_map = {var: expr for var, expr in rules}: its keys.
RuleMapKeys == {rules[i].var : i \in DOMAIN rules}

\* Mutant of SymbolVerdict: the scan without the test of lines 65-68, so that
\* a reference to a rule not yet classified no longer defers the rule.
SymbolVerdict_NoDeferral(sym, dyn, stat, cls) ==
    IF sym \in dyn THEN "dynamic"
    ELSE IF sym \notin RuleMapKeys /\ sym \notin stat THEN "dynamic"
    ELSE "pass"

\* What one symbol of the expression does to the scan of lines 61-73.
SymbolVerdict(sym, dyn, stat, cls) ==
    IF sym \in dyn THEN "dynamic"
    ELSE IF sym \in RuleMapKeys /\ sym \notin cls THEN "deferred"
    ELSE IF sym \notin RuleMapKeys /\ sym \notin stat THEN "dynamic"
    ELSE "pass"

\* The scan stops at the first symbol with a verdict; the symbols are a Python
\* set, so any symbol with a verdict can be the first one. No verdict: static.
RuleVerdicts(symbols, dyn, stat, cls) ==
    LET hits == {SymbolVerdict(s, dyn, stat, cls) : s \in symbols} \ {"pass"}
    IN  IF hits = {} THEN {"static"} ELSE hits

\* Mutant of ApplyVerdict: a rule marked dynamic is not added to dynamic_vars,
\* so a later rule that references it is no longer marked dynamic.
ApplyVerdict_NoDynamicVar(f, rule, verdict) ==
    IF verdict = "dynamic"
    THEN [f EXCEPT !.dynamic_list = Append(@, rule),
                   !.classified = @ \cup {rule.var},
                   !.made_progress = TRUE]
    ELSE IF verdict = "static"
    THEN [f EXCEPT !.static_list = Append(@, rule),
                   !.static_vars = @ \cup {rule.var},
                   !.classified = @ \cup {rule.var},
                   !.made_progress = TRUE]
    ELSE f

\* Mutant of ApplyVerdict: a rule marked dynamic is put at the front of the
\* dynamic list instead of at its end.
ApplyVerdict_Prepend(f, rule, verdict) ==
    IF verdict = "dynamic"
    THEN [f EXCEPT !.dynamic_list = <<rule>> \o @,
                   !.dynamic_vars = @ \cup {rule.var},
                   !.classified = @ \cup {rule.var},
                   !.made_progress = TRUE]
    ELSE IF verdict = "static"
    THEN [f EXCEPT !.static_list = Append(@, rule),
                   !.static_vars = @ \cup {rule.var},
                   !.classified = @ \cup {rule.var},
                   !.made_progress = TRUE]
    ELSE f

\* Lines 75-86: record the verdict of one rule in the frame f.
ApplyVerdict(f, rule, verdict) ==
    IF verdict = "dynamic"
    THEN [f EXCEPT !.dynamic_list = Append(@, rule),
                   !.dynamic_vars = @ \cup {rule.var},
                   !.classified = @ \cup {rule.var},
                   !.made_progress = TRUE]
    ELSE IF verdict = "static"
    THEN [f EXCEPT !.static_list = Append(@, rule),
                   !.static_vars = @ \cup {rule.var},
                   !.classified = @ \cup {rule.var},
                   !.made_progress = TRUE]
    ELSE f

\* Lines 50-86: the for loop over the rules, from rule i on; every frame the
\* loop can end in.
RECURSIVE ClassifyFrom(_, _)
ClassifyFrom(i, f) ==
    IF i > Len(rules) THEN {f}
    ELSE IF rules[i].var \in f.classified THEN ClassifyFrom(i + 1, f)
    ELSE UNION {ClassifyFrom(i + 1, ApplyVerdict(f, rules[i], v)) :
                    v \in RuleVerdicts(rules[i].symbols, f.dynamic_vars,
                                       f.static_vars, f.classified)}

\* Mutant of ForceRemaining: the fallback marks the rules left as classified
\* without appending them to the dynamic list.
ForceRemaining_Drop(i, cls, dlist) == dlist

\* Lines 88-94: no progress in a pass; the rules left are appended to the
\* dynamic list in list order.
RECURSIVE ForceRemaining(_, _, _)
ForceRemaining(i, cls, dlist) ==
    IF i > Len(rules) THEN dlist
    ELSE IF rules[i].var \notin cls
         THEN ForceRemaining(i + 1, cls, Append(dlist, rules[i]))
         ELSE ForceRemaining(i + 1, cls, dlist)

\* Line 40.
MaxIterations == Len(rules) + 1

\* Line 46: the while condition.
ClassifyLoopCond ==
    iteration < MaxIterations /\ Cardinality(classified) < Len(rules)

\* Lines 46-94: one iteration of the while loop.
ClassifyPass ==
    /\ UNCHANGED notAnalyzer
    /\ da_pc = "classify"
    /\ ClassifyLoopCond
    /\ iteration' = iteration + 1
    /\ \E f \in ClassifyFrom(1, [static_vars |-> static_vars,
                                 dynamic_vars |-> dynamic_vars,
                                 classified |-> classified,
                                 static_list |-> static_list,
                                 dynamic_list |-> dynamic_list,
                                 made_progress |-> FALSE]) :
          /\ static_vars' = f.static_vars
          /\ dynamic_vars' = f.dynamic_vars
          /\ static_list' = f.static_list
          /\ IF ~f.made_progress /\ Cardinality(f.classified) < Len(rules)
             THEN /\ dynamic_list' = ForceRemaining(1, f.classified, f.dynamic_list)
                  /\ classified' = RuleMapKeys
                  /\ da_pc' = "classified"
             ELSE /\ dynamic_list' = f.dynamic_list
                  /\ classified' = f.classified
                  /\ da_pc' = "classify"
    /\ UNCHANGED <<species_ids, param_ids, rules, external_dynamic_vars,
                   dependencies, defined, remaining, sorted_rules, sort_iteration>>

\* Lines 97-104: the dependencies of the static rules.
StaticDependencies(slist, stat) ==
    [v \in {slist[i].var : i \in DOMAIN slist} |->
        LET r == CHOOSE x \in Range(slist) : x.var = v
        IN  {s \in r.symbols : s \in RuleMapKeys /\ s \in stat}]

\* Lines 96-106 and 121-132: the loop is left (by its condition or by break),
\* the dependencies are built and _topological_sort is entered.
StartSort ==
    /\ UNCHANGED notAnalyzer
    /\ \/ da_pc = "classified"
       \/ da_pc = "classify" /\ ~ClassifyLoopCond
    /\ dependencies' = StaticDependencies(static_list, static_vars)
    /\ defined' = param_ids
    /\ sorted_rules' = <<>>
    /\ remaining' = {static_list[i].var : i \in DOMAIN static_list}
    /\ sort_iteration' = 0
    /\ da_pc' = "sort"
    /\ UNCHANGED <<species_ids, param_ids, rules, external_dynamic_vars,
                   static_vars, dynamic_vars, classified, static_list,
                   dynamic_list, iteration>>

\* rule_map[var] of _topological_sort (line 122).
StaticRule(v) == CHOOSE x \in Range(static_list) : x.var = v

\* Lines 139-143: the rules of `remaining` whose dependencies are all defined.
Ready(rem, deps, def) == {v \in rem : deps[v] \subseteq def}

\* Line 134: the while condition of _topological_sort.
SortLoopCond ==
    remaining # {} /\ sort_iteration < Len(static_list) + 1

\* Lines 134-157: one iteration of the while loop of _topological_sort. The
\* ready rules are appended in the iteration order of the set `remaining`.
SortPass ==
    /\ UNCHANGED notAnalyzer
    /\ da_pc = "sort"
    /\ SortLoopCond
    /\ sort_iteration' = sort_iteration + 1
    /\ LET ready == Ready(remaining, dependencies, defined)
       IN  IF ready # {}
           THEN \E order \in Orderings(ready) :
                  /\ sorted_rules' = sorted_rules \o [i \in DOMAIN order |-> StaticRule(order[i])]
                  /\ defined' = defined \cup ready
                  /\ remaining' = remaining \ ready
                  /\ da_pc' = "sort"
           ELSE \E order \in Orderings(remaining) :
                  /\ sorted_rules' = sorted_rules \o [i \in DOMAIN order |-> StaticRule(order[i])]
                  /\ UNCHANGED <<defined, remaining>>
                  /\ da_pc' = "done"
    /\ UNCHANGED <<species_ids, param_ids, rules, external_dynamic_vars,
                   static_vars, dynamic_vars, classified, static_list,
                   dynamic_list, iteration, dependencies>>

\* Lines 159 and 106-108: both functions return (sorted_static, dynamic_list).
ClassifyReturn ==
    /\ UNCHANGED notAnalyzer
    /\ da_pc = "sort"
    /\ ~SortLoopCond
    /\ da_pc' = "done"
    /\ UNCHANGED <<species_ids, param_ids, rules, external_dynamic_vars,
                   static_vars, dynamic_vars, classified, static_list,
                   dynamic_list, iteration, dependencies, defined, remaining,
                   sorted_rules, sort_iteration>>

\* Lines 8-10 and 25-44: the analyzer is constructed and classify_rules is
\* entered. param_ids holds the constants, and also the rule targets when the
\* caller passes every parameter name (facade.py lines 206-207); the dynamic
\* initial assignments are the external dynamic variables (facade.py line 210).
AnalyzerInit ==
    /\ species_ids = {"A"}
    /\ \E n \in 0..MaxRules :
          /\ \E symbols \in [1..n -> ExprSymbols(n)] :
                rules = [i \in 1..n |-> [var |-> VarNames[i], symbols |-> symbols[i]]]
          /\ param_ids \in {{"k1"}, {"k1"} \cup RuleVars(n)}
    /\ external_dynamic_vars = {"ia"}
    /\ static_vars = param_ids
    /\ dynamic_vars = species_ids \cup {"t", "time"} \cup external_dynamic_vars
    /\ classified = {}
    /\ static_list = <<>>
    /\ dynamic_list = <<>>
    /\ iteration = 0
    /\ dependencies = <<>>
    /\ defined = {}
    /\ remaining = {}
    /\ sorted_rules = <<>>
    /\ sort_iteration = 0
    /\ da_pc = "classify"

AnalyzerNext ==
    \/ ClassifyPass
    \/ StartSort
    \/ SortPass
    \/ ClassifyReturn

\* ------------------------------------------------ claims on classify_rules

\* The rule targets that the expression of rule target v references.
RuleRefs(v) ==
    LET r == CHOOSE x \in Range(rules) : x.var = v
    IN  r.symbols \cap RuleMapKeys

\* The rule targets reachable from the set S along references, S included.
RECURSIVE ReachFrom(_)
ReachFrom(S) ==
    LET T == S \cup UNION {RuleRefs(v) : v \in S}
    IN  IF T = S THEN S ELSE ReachFrom(T)

\* v lies on a dependency cycle among the rules (a self-reference included).
OnCycle(v) == v \in ReachFrom(RuleRefs(v))

\* How often rule r occurs in the list s.
Occurrences(r, s) == Cardinality({i \in DOMAIN s : s[i] = r})

\* C1: in the static list that classify_rules returns, every static rule that
\* another static rule references comes strictly before the rule referencing it.
C1_StaticListTopological ==
    da_pc = "done" =>
        \A i, j \in DOMAIN sorted_rules :
            (i # j /\ sorted_rules[j].var \in sorted_rules[i].symbols) => j < i

\* C2: classify_rules returns a partition: every input rule occurs exactly once
\* in exactly one of the two returned lists, and none is left out.
C2_Partition ==
    da_pc = "done" =>
        /\ \A i \in DOMAIN rules :
              Occurrences(rules[i], sorted_rules) + Occurrences(rules[i], dynamic_list) = 1
        /\ Len(sorted_rules) + Len(dynamic_list) = Len(rules)
        /\ classified = RuleMapKeys

\* C2 witness: a call has returned a non-empty static list and a non-empty
\* dynamic list, the latter filled by the no-progress fallback in a second pass.
C2_Witness ==
    /\ da_pc = "done"
    /\ sorted_rules # <<>>
    /\ dynamic_list # <<>>
    /\ iteration >= 2
    /\ \E i \in DOMAIN dynamic_list : dynamic_list[i].var \notin dynamic_vars

\* C3: classify_rules terminates (every loop stays within its pass cap and the
\* call is never stuck before it returns), and every rule on a dependency
\* cycle ends in the dynamic list, never in the static list.
C3_TerminatesCyclesDynamic ==
    /\ iteration <= Len(rules) + 1
    /\ sort_iteration <= Len(static_list) + 1
    /\ da_pc # "done" => ENABLED AnalyzerNext
    /\ da_pc = "done" =>
          \A i \in DOMAIN rules :
              OnCycle(rules[i].var) =>
                  /\ \E j \in DOMAIN dynamic_list : dynamic_list[j] = rules[i]
                  /\ \A j \in DOMAIN sorted_rules : sorted_rules[j] # rules[i]

\* C3 witness: V1 and V2 reference each other, neither references anything
\* dynamic, and the call has returned with both in the dynamic list.
C3_Witness ==
    /\ da_pc = "done"
    /\ Len(rules) >= 2
    /\ "V2" \in rules[1].symbols
    /\ "V1" \in rules[2].symbols
    /\ rules[1].symbols \cup rules[2].symbols \subseteq {"V1", "V2", "k1"}
    /\ {dynamic_list[j].var : j \in DOMAIN dynamic_list} = {"V1", "V2"}

\* Every symbol a rule depends on, directly or through a chain of other rules.
TransitiveSymbols(r) ==
    r.symbols \cup UNION {(CHOOSE x \in Range(rules) : x.var = v).symbols :
                              v \in ReachFrom(r.symbols \cap RuleMapKeys)}

\* The targets of the rules in the returned dynamic list.
DynamicListVars == {dynamic_list[j].var : j \in DOMAIN dynamic_list}

\* What makes a rule dynamic: a species, time, an external dynamic variable
\* (lines 33-37), a rule of the dynamic list, or a symbol that is neither in
\* param_ids nor a rule target (line 69).
DynamicSymbols(sym) ==
    \/ sym \in species_ids \cup {"t", "time"} \cup external_dynamic_vars
    \/ sym \in DynamicListVars
    \/ sym \notin param_ids \cup RuleMapKeys

\* C22: after classify_rules returns (the rule targets are pairwise distinct),
\* no rule of the returned static list depends, directly or through a chain of
\* other rules, on a species, on 't' or 'time', on an external dynamic
\* variable, on a rule of the dynamic list, or on a symbol that is neither a
\* known constant nor a rule.
C22_StaticRulesHaveNoDynamicDependency ==
    da_pc = "done" =>
        \A i \in DOMAIN sorted_rules :
            \A sym \in TransitiveSymbols(sorted_rules[i]) : ~DynamicSymbols(sym)

\* C22 witness: the call has returned a static list in which one rule depends
\* on a constant only through another static rule, next to a case decided the
\* other way: the targets are not among param_ids.
C22_Witness ==
    /\ da_pc = "done"
    /\ param_ids = {"k1"}
    /\ Len(sorted_rules) = 2
    /\ \E i \in DOMAIN sorted_rules :
          /\ sorted_rules[i].symbols \cap RuleMapKeys # {}
          /\ "k1" \notin sorted_rules[i].symbols
          /\ "k1" \in TransitiveSymbols(sorted_rules[i])

\* The rule list is in dependency order: every rule references only rules
\* that come before it (what sort_assignment_rules returns for acyclic rules).
InDependencyOrder ==
    \A i \in DOMAIN rules :
        rules[i].symbols \cap RuleMapKeys \subseteq {rules[j].var : j \in 1..(i - 1)}

\* The position of rule r in the input list.
InputPosition(r) == CHOOSE i \in DOMAIN rules : rules[i] = r

AnalyzerIdle ==
    /\ species_ids = {}
    /\ param_ids = {}
    /\ rules = <<>>
    /\ external_dynamic_vars = {}
    /\ static_vars = {}
    /\ dynamic_vars = {}
    /\ classified = {}
    /\ static_list = <<>>
    /\ dynamic_list = <<>>
    /\ iteration = 0
    /\ dependencies = <<>>
    /\ defined = {}
    /\ remaining = {}
    /\ sorted_rules = <<>>
    /\ sort_iteration = 0
    /\ da_pc = "idle"

\* ========================= SbmlExpressionParser.parse =========================
\* A math expression is represented by the identifiers it mentions and by
\* whether its text is empty, well formed or malformed.

EmptyExpression == [kind |-> "empty", ids |-> {}]

Wellformed(ids) == [kind |-> "wellformed", ids |-> ids]

Malformed(ids) == [kind |-> "malformed", ids |-> ids]

\* Lines 47-73: the callables _setup_context binds.
Builtins ==
    {"pow", "sqrt", "exp", "log", "ln", "sin", "cos", "tan", "abs", "gt", "lt",
     "ge", "le", "eq", "neq", "And", "Or", "sbml_piecewise"}

\* facade.py lines 78-83 and expression_parser.py lines 35-45: the context of
\* a parser built for the given symbol names.
MakeContext(names) ==
    [id \in names \cup {"time", "t"} \cup Builtins |->
        IF id \in Builtins THEN "<callable>"
        ELSE IF id = "time" THEN "t"
        ELSE id]

\* What parse_expr makes of one identifier (line 343): the entry of local_dict
\* when there is one; otherwise auto_symbol, one of the standard_transformations
\* of line 334, creates a new Symbol of that name.
ResolveIdentifier(id, ctx) ==
    IF id \in DOMAIN ctx THEN ctx[id] ELSE id

\* Lines 308-345: _parse_formula_string. The result is [raised, symbols]: the
\* free symbols of the expression returned, or an exception for a text that
\* parse_expr cannot parse.
ParseFormulaString(e, ctx) ==
    IF e.kind = "malformed"
    THEN [raised |-> TRUE, symbols |-> {}]
    ELSE [raised |-> FALSE,
          symbols |-> {ResolveIdentifier(id, ctx) : id \in e.ids} \ {"<callable>"}]

\* Lines 75-102: parse. An empty expression is the constant 0.0.
Parse(e, ctx) ==
    IF e.kind = "empty"
    THEN [raised |-> FALSE, symbols |-> {}]
    ELSE ParseFormulaString(e, ctx)

\* =============== AssignmentRuleProcessor.sort_assignment_rules ===============

\* Lines 60-66: the expression kept for one rule; a rule whose math does not
\* parse is kept as the constant 0.0.
ParsedRuleSymbols(math, ctx) ==
    LET r == Parse(math, ctx)
    IN  IF r.raised THEN {} ELSE r.symbols

\* The keys of parsed_rules (pr), in insertion order and as a set.
ParsedVars(pr) == {pr[i].var : i \in DOMAIN pr}

\* Lines 88-103: _build_dependency_graph.
BuildDependencyGraph(pr) ==
    [v \in ParsedVars(pr) |->
        LET r == CHOOSE x \in Range(pr) : x.var = v
        IN  {s \in r.symbols : s \in ParsedVars(pr) /\ s # v}]

\* Line 119.
InDegree(deps) == [v \in DOMAIN deps |-> Cardinality(deps[v])]

\* Mutant of InitialQueue: every variable is queued, whatever its in-degree.
InitialQueue_All(pr, deg) == [i \in DOMAIN pr |-> pr[i].var]

\* Line 122: the variables of in-degree 0, in dict order.
InitialQueue(pr, deg) ==
    LET order == [i \in DOMAIN pr |-> pr[i].var]
        Zero(v) == deg[v] = 0
    IN  SelectSeq(order, Zero)

\* Lines 131-135: the variables whose in-degree the removal of `current` brings
\* to 0, in dict order.
NewlyReady(pr, deps, deg, current) ==
    LET order == [i \in DOMAIN pr |-> pr[i].var]
        Hit(v) == current \in deps[v] /\ deg[v] - 1 = 0
    IN  SelectSeq(order, Hit)

\* Lines 131-133: the in-degrees after the removal of `current`.
Decrement(deps, deg, current) ==
    [v \in DOMAIN deg |-> IF current \in deps[v] THEN deg[v] - 1 ELSE deg[v]]

\* Mutant of CycleDetected: the check of line 138 is left out.
CycleDetected_Never(sorted, deps) == FALSE

\* Line 138: the check that every node was processed.
CycleDetected(sorted, deps) == Len(sorted) # Cardinality(DOMAIN deps)

\* Line 75: the list returned, as (var, expr) pairs.
SortedRules(sorted, pr) ==
    [i \in DOMAIN sorted |-> CHOOSE x \in Range(pr) : x.var = sorted[i]]

\* Lines 54-72 and 119-123: the rules are parsed, the graph is built and
\* _topological_sort is entered.
SortParse ==
    /\ UNCHANGED notSorter
    /\ ap_pc = "parse"
    /\ parsed_rules' = [i \in DOMAIN assignment_rules |->
                           [var |-> assignment_rules[i].variable,
                            symbols |-> ParsedRuleSymbols(assignment_rules[i].math, context)]]
    /\ sort_dependencies' = BuildDependencyGraph(parsed_rules')
    /\ in_degree' = InDegree(sort_dependencies')
    /\ queue' = InitialQueue(parsed_rules', in_degree')
    /\ sorted_vars' = <<>>
    /\ ap_pc' = "kahn"
    /\ UNCHANGED <<assignment_rules, sort_result, context>>

\* Lines 125-135: one iteration of the while loop of _topological_sort.
KahnStep ==
    /\ UNCHANGED notSorter
    /\ ap_pc = "kahn"
    /\ queue # <<>>
    /\ LET current == Head(queue)
       IN  /\ sorted_vars' = Append(sorted_vars, current)
           /\ in_degree' = Decrement(sort_dependencies, in_degree, current)
           /\ queue' = Tail(queue) \o NewlyReady(parsed_rules, sort_dependencies,
                                                 in_degree, current)
    /\ UNCHANGED <<assignment_rules, parsed_rules, sort_dependencies, sort_result,
                   ap_pc, context>>

\* Lines 137-144 and 75: the queue is empty; ValueError on a cycle, otherwise
\* the rules are returned in sorted order.
KahnFinish ==
    /\ UNCHANGED notSorter
    /\ ap_pc = "kahn"
    /\ queue = <<>>
    /\ IF CycleDetected(sorted_vars, sort_dependencies)
       THEN /\ ap_pc' = "raised"
            /\ sort_result' = <<>>
       ELSE /\ ap_pc' = "returned"
            /\ sort_result' = SortedRules(sorted_vars, parsed_rules)
    /\ UNCHANGED <<assignment_rules, parsed_rules, sort_dependencies, in_degree,
                   queue, sorted_vars, context>>

\* The math of the assignment rules that are enumerated: a well-formed formula
\* over the constant k1 and any set of rule variables, or a malformed text.
RuleMath(n) ==
    {Wellformed(d \cup {"k1"}) : d \in SUBSET RuleVars(n)} \cup {Malformed({})}

\* sort_assignment_rules is entered with up to MaxAssignmentRules rules of
\* pairwise distinct variables; the parser knows k1 and the rule variables.
SorterInit ==
    /\ \E n \in 0..MaxAssignmentRules :
          /\ \E math \in [1..n -> RuleMath(n)] :
                assignment_rules =
                    [i \in 1..n |-> [variable |-> VarNames[i], math |-> math[i]]]
          /\ context = MakeContext({"k1"} \cup RuleVars(n))
    /\ parsed_rules = <<>>
    /\ sort_dependencies = <<>>
    /\ in_degree = <<>>
    /\ queue = <<>>
    /\ sorted_vars = <<>>
    /\ sort_result = <<>>
    /\ ap_pc = "parse"

SorterIdle ==
    /\ assignment_rules = <<>>
    /\ parsed_rules = <<>>
    /\ sort_dependencies = <<>>
    /\ in_degree = <<>>
    /\ queue = <<>>
    /\ sorted_vars = <<>>
    /\ sort_result = <<>>
    /\ ap_pc = "idle"

SorterNext ==
    \/ SortParse
    \/ KahnStep
    \/ KahnFinish

\* ---------------------------------------- claims on sort_assignment_rules

\* The variables of the rules handed to sort_assignment_rules.
InputVars == {assignment_rules[i].variable : i \in DOMAIN assignment_rules}

\* The rule variables that the expression of rule variable v references; a
\* math text that does not parse references nothing.
InputRefs(v) ==
    LET r == CHOOSE x \in Range(assignment_rules) : x.variable = v
    IN  IF r.math.kind = "wellformed" THEN r.math.ids \cap InputVars ELSE {}

\* The rule variables reachable from the set S along references, S included.
RECURSIVE InputReach(_)
InputReach(S) ==
    LET T == S \cup UNION {InputRefs(v) : v \in S}
    IN  IF T = S THEN S ELSE InputReach(T)

\* The dependency graph of the rules has no cycle (no self-reference either).
InputAcyclic == \A v \in InputVars : v \notin InputReach(InputRefs(v))

\* Two distinct rules depend on each other, directly or through other rules.
InputMutualCycle ==
    \E v, w \in InputVars :
        /\ v # w
        /\ w \in InputReach(InputRefs(v))
        /\ v \in InputReach(InputRefs(w))

SortFinished == ap_pc \in {"returned", "raised"}

\* C4: for rules whose dependency graph has no cycle, sort_assignment_rules
\* returns every rule variable exactly once, each rule after every rule
\* variable that its expression references.
C4_AcyclicSortedInDependencyOrder ==
    (SortFinished /\ InputAcyclic) =>
        /\ ap_pc = "returned"
        /\ Len(sort_result) = Len(assignment_rules)
        /\ \A v \in InputVars :
              Cardinality({i \in DOMAIN sort_result : sort_result[i].var = v}) = 1
        /\ \A i \in DOMAIN sort_result :
              \A v \in InputRefs(sort_result[i].var) :
                  \E j \in 1..(i - 1) : sort_result[j].var = v

\* C4 witness: V1 references V2 and V2 references V3, against the declaration
\* order, and the sort has returned all three rules.
C4_Witness ==
    /\ ap_pc = "returned"
    /\ Len(sort_result) = 3
    /\ "V2" \in InputRefs("V1")
    /\ "V3" \in InputRefs("V2")

\* C5: when two or more distinct rules depend on each other in a cycle,
\* sort_assignment_rules raises ValueError and returns no ordering.
C5_MutualCycleRaises ==
    (SortFinished /\ InputMutualCycle) =>
        /\ ap_pc = "raised"
        /\ sort_result = <<>>

\* C5 witness: V1 and V2 reference each other and the sort has raised.
C5_Witness ==
    /\ ap_pc = "raised"
    /\ Len(assignment_rules) >= 2
    /\ "V2" \in InputRefs("V1")
    /\ "V1" \in InputRefs("V2")

\* ===================== OdeSystemBuilder.build_ode_system =====================
\* A derivative is a sum of multiples of the reactions' rates; it is kept as
\* the coefficient of each reaction's rate (the rates being distinct symbols).

\* The reaction ids, in dict order.
RxnIds == <<"R1", "R2">>

RxnIdSet == Range(RxnIds)

\* The species ids that reactions mention; X is in no species map.
SpeciesRefs == {"A", "B", "X"}

StoichValues == {1, 2}

StoichPairs == StoichValues \X SpeciesRefs

\* Line 55: [sympy.Float(0.0)] * self.n_species.
ZeroSystem(n_species) == [idx \in 0..(n_species - 1) |-> [r \in RxnIdSet |-> 0]]

\* Mutant of Contribution: the stoichiometric coefficient is left out.
Contribution_UnitStoich(dy, rxn_id, stoich, species_id, sign, smap) ==
    IF species_id \in DOMAIN smap
    THEN [dy EXCEPT ![smap[species_id]][rxn_id] = @ + sign]
    ELSE dy

\* Mutant of Contribution: a species that is not in the map is given index 0
\* instead of being skipped.
Contribution_DefaultIndex(dy, rxn_id, stoich, species_id, sign, smap) ==
    LET idx == IF species_id \in DOMAIN smap THEN smap[species_id] ELSE 0
    IN  [dy EXCEPT ![idx][rxn_id] = @ + sign * stoich]

\* Lines 65-67 and 71-73: dy_dt[idx] -= stoich * rate_expr (sign -1) or
\* dy_dt[idx] += stoich * rate_expr (sign 1), for a species of the map only.
Contribution(dy, rxn_id, stoich, species_id, sign, smap) ==
    IF species_id \in DOMAIN smap
    THEN [dy EXCEPT ![smap[species_id]][rxn_id] = @ + sign * stoich]
    ELSE dy

\* Lines 64-67 and 70-73: one of the two for loops over a stoichiometry list.
RECURSIVE Contributions(_, _, _, _, _, _)
Contributions(dy, rxn_id, pairs, i, sign, smap) ==
    IF i > Len(pairs) THEN dy
    ELSE Contributions(Contribution(dy, rxn_id, pairs[i][1], pairs[i][2], sign, smap),
                       rxn_id, pairs, i + 1, sign, smap)

\* Lines 63-73: the reactants, then the products, of one reaction.
ReactionContributions(dy, rxn, smap) ==
    Contributions(Contributions(dy, rxn.id, rxn.reactants, 1, -1, smap),
                  rxn.id, rxn.products, 1, 1, smap)

\* Lines 58-77: one iteration of the for loop over the reactions; a rate law
\* that does not parse raises out of build_ode_system.
ProcessReaction ==
    /\ UNCHANGED notOde
    /\ ob_pc = "loop"
    /\ rxn_index < Len(reactions)
    /\ LET rxn == reactions[rxn_index + 1]
       IN  IF Parse(rxn.rateLaw, context).raised
           THEN /\ ob_pc' = "raised"
                /\ UNCHANGED <<dy_dt, rxn_index>>
           ELSE /\ dy_dt' = ReactionContributions(dy_dt, rxn, species_map)
                /\ rxn_index' = rxn_index + 1
                /\ ob_pc' = "loop"
    /\ UNCHANGED <<species_map, reactions, context>>

\* Line 79: return dy_dt.
BuildReturn ==
    /\ UNCHANGED notOde
    /\ ob_pc = "loop"
    /\ rxn_index = Len(reactions)
    /\ ob_pc' = "returned"
    /\ UNCHANGED <<species_map, reactions, dy_dt, rxn_index, context>>

\* The stoichiometry lists of exactly m pairs.
PairLists(m) == [1..m -> StoichPairs]

\* The reactions of the given id with at most k pairs on both sides together,
\* with a rate law that parses or one that does not.
ReactionsWith(id, k) ==
    UNION {UNION {[id : {id},
                   rateLaw : {Wellformed({"k1", "A"}), Malformed({})},
                   reactants : PairLists(a),
                   products : PairLists(b)] : b \in 0..(k - a)} : a \in 0..k}

RECURSIVE PairCount(_)
PairCount(rxns) ==
    IF rxns = <<>> THEN 0
    ELSE Len(Head(rxns).reactants) + Len(Head(rxns).products) + PairCount(Tail(rxns))

\* Lines 13-22 and 55: a builder for the species A and B (facade.py line 42
\* numbers the species from 0) enters build_ode_system with no, one or two
\* reactions of at most MaxStoichPairs pairs in all.
OdeInit ==
    /\ species_map = [id \in {"A", "B"} |-> IF id = "A" THEN 0 ELSE 1]
    /\ context = MakeContext({"k1", "A", "B"})
    /\ \/ reactions = <<>>
       \/ \E r1 \in ReactionsWith(RxnIds[1], MaxStoichPairs) :
             \/ reactions = <<r1>>
             \/ \E r2 \in ReactionsWith(RxnIds[2], MaxStoichPairs - PairCount(<<r1>>)) :
                   reactions = <<r1, r2>>
    /\ dy_dt = ZeroSystem(Cardinality(DOMAIN species_map))
    /\ rxn_index = 0
    /\ ob_pc = "loop"

OdeIdle ==
    /\ species_map = <<>>
    /\ reactions = <<>>
    /\ dy_dt = <<>>
    /\ rxn_index = 0
    /\ ob_pc = "idle"

OdeNext ==
    \/ ProcessReaction
    \/ BuildReturn

\* ------------------------------------------- claims on build_ode_system

\* The sum of the stoichiometries that the list `pairs` gives species s.
RECURSIVE StoichSum(_, _)
StoichSum(pairs, s) ==
    IF pairs = <<>> THEN 0
    ELSE (IF Head(pairs)[2] = s THEN Head(pairs)[1] ELSE 0) + StoichSum(Tail(pairs), s)

\* The reaction list without the pairs whose species is not in the map.
KnownPair(pair) == pair[2] \in DOMAIN species_map

WithoutUnknownSpecies(rxns) ==
    [i \in DOMAIN rxns |->
        [rxns[i] EXCEPT !.reactants = SelectSeq(@, KnownPair),
                        !.products = SelectSeq(@, KnownPair)]]

\* build_ode_system run on the reaction list rxns, from reaction i on.
RECURSIVE BuildFrom(_, _, _)
BuildFrom(dy, rxns, i) ==
    IF i > Len(rxns) THEN dy
    ELSE BuildFrom(ReactionContributions(dy, rxns[i], species_map), rxns, i + 1)

\* C6: build_ode_system returns n_species expressions, and in the entry of
\* every species s the coefficient of every reaction's rate is the sum of s's
\* product stoichiometries minus the sum of s's reactant stoichiometries in
\* that reaction; so for a single A -> B with unit stoichiometry the entries of
\* A and B are additive inverses, and without reactions every entry is zero.
C6_NetStoichiometry ==
    ob_pc = "returned" =>
        /\ DOMAIN dy_dt = 0..(Cardinality(DOMAIN species_map) - 1)
        /\ \A s \in DOMAIN species_map :
              \A i \in DOMAIN reactions :
                  dy_dt[species_map[s]][reactions[i].id] =
                      StoichSum(reactions[i].products, s) - StoichSum(reactions[i].reactants, s)
        /\ \A s \in DOMAIN species_map :
              \A id \in RxnIdSet \ {reactions[i].id : i \in DOMAIN reactions} :
                  dy_dt[species_map[s]][id] = 0
        /\ (/\ Len(reactions) = 1
            /\ reactions[1].reactants = <<<<1, "A">>>>
            /\ reactions[1].products = <<<<1, "B">>>>) =>
                \A id \in RxnIdSet :
                    dy_dt[species_map["A"]][id] = 0 - dy_dt[species_map["B"]][id]

\* C6 witness: build_ode_system has returned for two reactions, the first
\* with species A twice among its reactants and B as a product of
\* stoichiometry 2.
C6_Witness ==
    /\ ob_pc = "returned"
    /\ Len(reactions) = 2
    /\ Len(reactions[1].reactants) = 2
    /\ \A i \in DOMAIN reactions[1].reactants : reactions[1].reactants[i][2] = "A"
    /\ reactions[1].products = <<<<2, "B">>>>

\* C7: a reactant or product whose species is not in the species map never
\* raises and adds nothing: build_ode_system raises only on a rate law that
\* does not parse, and its result is the result for the same reactions with
\* those pairs removed.
C7_UnknownSpeciesSkipped ==
    /\ ob_pc = "raised" =>
          \E i \in DOMAIN reactions : reactions[i].rateLaw.kind = "malformed"
    /\ ob_pc = "returned" =>
          dy_dt = BuildFrom(ZeroSystem(Cardinality(DOMAIN species_map)),
                            WithoutUnknownSpecies(reactions), 1)

\* C7 witness: build_ode_system has returned for a reaction with the unknown
\* species X among its reactants and the known species B among its products.
C7_Witness ==
    /\ ob_pc = "returned"
    /\ \E i \in DOMAIN reactions :
          /\ \E j \in DOMAIN reactions[i].reactants : reactions[i].reactants[j][2] = "X"
          /\ \E j \in DOMAIN reactions[i].products : reactions[i].products[j][2] = "B"

\* ============ ParseSBMLFile and SbmlToRustConverter.convert =================

\* The kinds of rule an SBML document can hold.
RuleKinds == {"assignment", "rate", "algebraic"}

\* The math of a document rule: a formula over known names, a formula that
\* also names zz, which nothing in the model declares, a formula over the
\* rule variables, or a text that cannot be parsed.
DocRuleMath(n) ==
    {Wellformed({"k1", "A"}), Wellformed({"k1", "zz"}),
     Wellformed({"k1"} \cup RuleVars(n)), Malformed({})}

\* The math of a rate law, initial assignment, trigger or event assignment.
DocMath == {Wellformed({"k1", "A"}), Wellformed({"k1", "zz"}), Malformed({})}

\* The delay of the event (parser.py lines 295-303): none, or a formula.
DocDelay == {EmptyExpression, Wellformed({"k1"})}

\* parser.py lines 48-79: ParseRule. An algebraic rule is refused; assignment
\* rules and rate rules are both turned into rule data.
ParseRule(rule) ==
    IF rule.kind = "algebraic"
    THEN [raised |-> TRUE, data |-> rule]
    ELSE [raised |-> FALSE, data |-> rule]

\* parser.py lines 387-392: the rules of one kind, in document order.
RulesOfKind(doc_rules, kind) ==
    LET IsKind(r) == r.kind = kind
    IN  SelectSeq(doc_rules, IsKind)

\* parser.py lines 345-448: ParseSBMLFile; the model dictionary of a document.
ParseSBMLFile(doc) ==
    [species |-> {"A", "B"},
     parameters |-> {"k1"} \cup {doc.rules[i].variable : i \in DOMAIN doc.rules},
     compartments |-> {"c1"},
     assignmentRules |-> RulesOfKind(doc.rules, "assignment"),
     rateRules |-> RulesOfKind(doc.rules, "rate"),
     reactions |-> <<[rateLaw |-> doc.rateLaw]>>,
     initialAssignments |-> <<[variable |-> "k1", math |-> doc.initialAssignment]>>,
     events |-> <<[trigger |-> doc.trigger,
                   delay |-> doc.delay,
                   eventAssignments |-> <<[variable |-> "A",
                                           math |-> doc.eventAssignment]>>]>>]

\* The model dictionary before a document is read.
NoModel ==
    [species |-> {}, parameters |-> {}, compartments |-> {},
     assignmentRules |-> <<>>, rateRules |-> <<>>, reactions |-> <<>>,
     initialAssignments |-> <<>>, events |-> <<>>]

\* The code blocks before _generate_code_blocks has run.
NoBlocks ==
    [assignment_rules |-> <<>>, initial_assignments |-> <<>>, rhs |-> <<>>,
     root_fn |-> <<>>, event_handling |-> <<>>]

\* assignment_processor.py lines 54-66: the parse loop of sort_assignment_rules.
ParseRules(ar, ctx) ==
    [i \in DOMAIN ar |->
        [var |-> ar[i].variable, symbols |-> ParsedRuleSymbols(ar[i].math, ctx)]]

\* assignment_processor.py lines 125-135: the while loop of _topological_sort,
\* run until the queue is empty.
RECURSIVE KahnRun(_, _, _, _, _)
KahnRun(pr, deps, deg, q, sorted) ==
    IF q = <<>>
    THEN sorted
    ELSE KahnRun(pr, deps, Decrement(deps, deg, Head(q)),
                 Tail(q) \o NewlyReady(pr, deps, deg, Head(q)),
                 Append(sorted, Head(q)))

\* assignment_processor.py lines 21-75: process / sort_assignment_rules as one
\* call; [raised, result].
SortAssignmentRules(ar, ctx) ==
    LET pr == ParseRules(ar, ctx)
        deps == BuildDependencyGraph(pr)
        deg == InDegree(deps)
        sorted == KahnRun(pr, deps, deg, InitialQueue(pr, deg), <<>>)
    IN  IF ar = <<>> THEN [raised |-> FALSE, result |-> <<>>]
        ELSE IF CycleDetected(sorted, deps) THEN [raised |-> TRUE, result |-> <<>>]
        ELSE [raised |-> FALSE, result |-> SortedRules(sorted, pr)]

\* event_generator.py lines 62-85: the line of root_fn for one event.
RootLine(event, ctx) ==
    LET r == Parse(event.trigger, ctx)
    IN  IF event.trigger.kind = "empty" THEN [kind |-> "no trigger", symbols |-> {}]
        ELSE IF r.raised THEN [kind |-> "parse error", symbols |-> {}]
        ELSE [kind |-> "trigger", symbols |-> r.symbols]

\* event_generator.py lines 115-140: the line of the event callback for one
\* event assignment.
AssignmentLine(assignment, ctx) ==
    LET r == Parse(assignment.math, ctx)
    IN  IF r.raised THEN [kind |-> "parse error", symbols |-> {}]
        ELSE [kind |-> "assignment", symbols |-> r.symbols]

\* event_generator.py lines 83-84 and 138-139: the warnings printed while the
\* code of the events is generated, one for a trigger and one for an event
\* assignment that does not parse. No line of the generator reads the delay
\* of an event.
EventWarnings(ev, ctx) ==
    {[event |-> i, about |-> "trigger"] :
        i \in {k \in DOMAIN ev : ev[k].trigger.kind # "empty"
                                  /\ Parse(ev[k].trigger, ctx).raised}}
    \cup {[event |-> i, about |-> "assignment"] :
        i \in {k \in DOMAIN ev :
                  \E j \in DOMAIN ev[k].eventAssignments :
                      Parse(ev[k].eventAssignments[j].math, ctx).raised}}

\* parser.py lines 345-448: ParseSBMLFile reads the document.
ReadModel ==
    /\ UNCHANGED notConv
    /\ cv_pc = "read"
    /\ IF \E i \in DOMAIN sbml_doc.rules : ParseRule(sbml_doc.rules[i]).raised
       THEN /\ cv_pc' = "raised"
            /\ model_data' = model_data
       ELSE /\ cv_pc' = "construct"
            /\ model_data' = ParseSBMLFile(sbml_doc)
    /\ UNCHANGED <<sbml_doc, cv_rules, ode_system, code_blocks, rust_source, context, cv_warnings>>

\* facade.py lines 29-100: SbmlToRustConverter.__init__ builds the symbol
\* context from the species, parameters and compartments of the model.
Construct ==
    /\ UNCHANGED notConv
    /\ cv_pc = "construct"
    /\ context' = MakeContext(model_data.species \cup model_data.parameters
                              \cup model_data.compartments)
    /\ cv_pc' = "rules"
    /\ UNCHANGED <<sbml_doc, model_data, cv_rules, ode_system, code_blocks, rust_source, cv_warnings>>

\* facade.py lines 114-117: step 1 of convert, the assignment rules.
ConvertRules ==
    /\ UNCHANGED notConv
    /\ cv_pc = "rules"
    /\ LET r == SortAssignmentRules(model_data.assignmentRules, context)
       IN  /\ cv_rules' = r.result
           /\ cv_pc' = IF r.raised THEN "raised" ELSE "ode"
    /\ UNCHANGED <<sbml_doc, model_data, ode_system, code_blocks, rust_source, context, cv_warnings>>

\* facade.py lines 119-131: steps 2 to 4 of convert; build_ode_system parses
\* every rate law and re-raises a parse failure (ode_builder.py lines 58-77).
ConvertOde ==
    /\ UNCHANGED notConv
    /\ cv_pc = "ode"
    /\ LET parsed == [i \in DOMAIN model_data.reactions |->
                         Parse(model_data.reactions[i].rateLaw, context)]
       IN  IF \E i \in DOMAIN parsed : parsed[i].raised
           THEN /\ cv_pc' = "raised"
                /\ ode_system' = ode_system
           ELSE /\ cv_pc' = "blocks"
                /\ ode_system' = [i \in DOMAIN parsed |-> parsed[i].symbols]
    /\ UNCHANGED <<sbml_doc, model_data, cv_rules, code_blocks, rust_source, context, cv_warnings>>

\* facade.py lines 133-135 and 142-294: step 5 of convert, _generate_code_blocks.
\* The initial assignments are parsed outside any try (line 191); the triggers
\* and event assignments are parsed by the event generator (lines 285-292).
GenerateCodeBlocks ==
    /\ UNCHANGED notConv
    /\ cv_pc = "blocks"
    /\ LET ia == model_data.initialAssignments
           parsed == [i \in DOMAIN ia |-> Parse(ia[i].math, context)]
           ev == model_data.events
       IN  IF \E i \in DOMAIN parsed : parsed[i].raised
           THEN /\ cv_pc' = "raised"
                /\ code_blocks' = code_blocks
                /\ cv_warnings' = cv_warnings
           ELSE /\ cv_pc' = "assemble"
                /\ cv_warnings' = cv_warnings \cup EventWarnings(ev, context)
                /\ code_blocks' =
                      [assignment_rules |-> cv_rules,
                       initial_assignments |->
                           [i \in DOMAIN ia |-> [var |-> ia[i].variable,
                                                 symbols |-> parsed[i].symbols]],
                       rhs |-> ode_system,
                       root_fn |-> [i \in DOMAIN ev |-> RootLine(ev[i], context)],
                       event_handling |->
                           [i \in DOMAIN ev |->
                               [j \in DOMAIN ev[i].eventAssignments |->
                                   AssignmentLine(ev[i].eventAssignments[j], context)]]]
    /\ UNCHANGED <<sbml_doc, model_data, cv_rules, ode_system, rust_source, context>>

\* facade.py lines 137-140: step 6 of convert; the Rust file is assembled from
\* the code blocks and returned.
Assemble ==
    /\ UNCHANGED notConv
    /\ cv_pc = "assemble"
    /\ rust_source' = <<code_blocks>>
    /\ cv_pc' = "emitted"
    /\ UNCHANGED <<sbml_doc, model_data, cv_rules, ode_system, code_blocks, context, cv_warnings>>

\* An SBML document of up to MaxDocRules rules of pairwise distinct
\* variables, one reaction, one initial assignment and one event with one
\* event assignment.
ConvInit ==
    /\ \E n \in 0..MaxDocRules :
          \E kind \in [1..n -> RuleKinds], math \in [1..n -> DocRuleMath(n)] :
             sbml_doc \in
                [rules : {[i \in 1..n |-> [kind |-> kind[i], variable |-> VarNames[i],
                                           math |-> math[i]]]},
                 rateLaw : DocMath,
                 initialAssignment : DocMath,
                 trigger : DocMath,
                 delay : DocDelay,
                 eventAssignment : DocMath]
    /\ model_data = NoModel
    /\ cv_rules = <<>>
    /\ ode_system = <<>>
    /\ code_blocks = NoBlocks
    /\ rust_source = <<>>
    /\ cv_warnings = {}
    /\ context = <<>>
    /\ cv_pc = "read"

ConvIdle ==
    /\ sbml_doc = <<>>
    /\ model_data = NoModel
    /\ cv_rules = <<>>
    /\ ode_system = <<>>
    /\ code_blocks = NoBlocks
    /\ rust_source = <<>>
    /\ cv_warnings = {}
    /\ cv_pc = "idle"

ConvNext ==
    \/ ReadModel
    \/ Construct
    \/ ConvertRules
    \/ ConvertOde
    \/ GenerateCodeBlocks
    \/ Assemble

\* ----------------------------------------------------- claims on convert

\* The expressions of the model that was read, site by site.
ModelExpressions ==
    {model_data.assignmentRules[i].math : i \in DOMAIN model_data.assignmentRules}
    \cup {model_data.reactions[i].rateLaw : i \in DOMAIN model_data.reactions}
    \cup {model_data.initialAssignments[i].math : i \in DOMAIN model_data.initialAssignments}
    \cup {model_data.events[i].trigger : i \in DOMAIN model_data.events}
    \cup UNION {{model_data.events[i].eventAssignments[j].math :
                    j \in DOMAIN model_data.events[i].eventAssignments} :
                 i \in DOMAIN model_data.events}

\* The symbols the model declares: what the context maps identifiers to.
DeclaredSymbols == Range(context) \ {"<callable>"}

\* The symbols of every expression in the emitted source.
EmittedSymbols ==
    LET b == rust_source[1]
    IN  UNION ({b.assignment_rules[i].symbols : i \in DOMAIN b.assignment_rules}
               \cup {b.initial_assignments[i].symbols : i \in DOMAIN b.initial_assignments}
               \cup {b.rhs[i] : i \in DOMAIN b.rhs}
               \cup {b.root_fn[i].symbols : i \in DOMAIN b.root_fn}
               \cup UNION {{b.event_handling[i][j].symbols :
                               j \in DOMAIN b.event_handling[i]} :
                            i \in DOMAIN b.event_handling})

\* C8: when an expression of the model (rate law, assignment rule, initial
\* assignment, event trigger or event assignment) fails to parse, convert
\* raises: no source is emitted for a model with an unparsable expression.
C8_ParseFailureAborts ==
    cv_pc = "emitted" => \A e \in ModelExpressions : ~Parse(e, context).raised

\* C9: a formula that names an identifier the context does not know fails at
\* parse time: no expression of the emitted source holds a symbol that the
\* model does not declare.
C9_UnknownIdentifierFails ==
    cv_pc = "emitted" => EmittedSymbols \subseteq DeclaredSymbols

\* C11: for every event that carries a delay the event code generation
\* reports the unsupported delay: the conversion either raises or has printed
\* a warning about the delay of that event by the time the source is emitted.
C11_DelayReported ==
    cv_pc = "emitted" =>
        \A i \in DOMAIN model_data.events :
            model_data.events[i].delay.kind # "empty" =>
                [event |-> i, about |-> "delay"] \in cv_warnings

\* C10: a model with a rate rule is rejected: no source is emitted for it.
C10_RateRuleRejected ==
    cv_pc = "emitted" => model_data.rateRules = <<>>

\* ========================== FunctionInliner.inline ==========================
\* An expression string is represented by its list of tokens: identifiers,
\* "(", ")", "," and operators; white space is left out. Two identifier
\* tokens in a row are the pieces of one longer identifier ("g", "f" is gf).

Operators == {"*", "+", "-", "/"}

\* A token that is matched by \w+ : an identifier or a piece of one.
IsWordPiece(tok) == tok \notin Operators \cup {"(", ")", ",", " "}

\* Line 19.
max_depth == 10

\* Lines 49-50: re.search(rf"\b{func_id}\s*\(", expression); the position of
\* the first call of func_id, 0 when there is none.
FindCall(expr, func_id) ==
    LET hits == {i \in 1..(Len(expr) - 1) :
                    /\ expr[i] = func_id
                    /\ expr[i + 1] = "("
                    /\ (i = 1 \/ ~IsWordPiece(expr[i - 1]))}
    IN  IF hits = {} THEN 0 ELSE CHOOSE i \in hits : \A j \in hits : i <= j

\* Lines 90-105: _extract_arguments, from the token after the opening
\* parenthesis; [found, args, end] where end is the position after the
\* closing parenthesis, and found is FALSE for (None, None).
RECURSIVE ExtractArguments(_, _, _, _)
ExtractArguments(expr, end_idx, open_count, args_str) ==
    IF end_idx <= Len(expr) /\ open_count > 0
    THEN LET open == IF expr[end_idx] = "(" THEN open_count + 1
                     ELSE IF expr[end_idx] = ")" THEN open_count - 1
                     ELSE open_count
         IN  ExtractArguments(expr, end_idx + 1, open,
                              IF open > 0 THEN Append(args_str, expr[end_idx])
                              ELSE args_str)
    ELSE [found |-> open_count = 0, args |-> args_str, end |-> end_idx]

\* Mutant of SplitArguments: every comma splits, whatever the nesting depth.
RECURSIVE SplitArguments_EveryComma(_, _, _, _, _)
SplitArguments_EveryComma(args_str, i, current, nesting, args) ==
    IF i > Len(args_str)
    THEN IF current # <<>> THEN Append(args, current) ELSE args
    ELSE IF args_str[i] = ","
    THEN SplitArguments_EveryComma(args_str, i + 1, <<>>, nesting, Append(args, current))
    ELSE SplitArguments_EveryComma(args_str, i + 1, Append(current, args_str[i]),
                                   nesting, args)

\* Lines 121-139: _split_arguments; the arguments between the commas of
\* nesting depth 0, the last one kept only when it is not empty.
RECURSIVE SplitArguments(_, _, _, _, _)
SplitArguments(args_str, i, current, nesting, args) ==
    IF i > Len(args_str)
    THEN IF current # <<>> THEN Append(args, current) ELSE args
    ELSE IF args_str[i] = "," /\ nesting = 0
    THEN SplitArguments(args_str, i + 1, <<>>, nesting, Append(args, current))
    ELSE SplitArguments(args_str, i + 1, Append(current, args_str[i]),
                        IF args_str[i] = "(" THEN nesting + 1
                        ELSE IF args_str[i] = ")" THEN nesting - 1
                        ELSE nesting,
                        args)

\* Lines 157-159: the positions of the formal parameters, longest name first;
\* sorted is stable, so names of equal length keep their order.
SortedDefArgs(def_args) ==
    CHOOSE p \in Orderings(DOMAIN def_args) :
        \A i, j \in DOMAIN p :
            i < j => \/ Len(def_args[p[i]]) > Len(def_args[p[j]])
                     \/ Len(def_args[p[i]]) = Len(def_args[p[j]]) /\ p[i] < p[j]

\* Lines 167-169: re.sub(rf"\b{arg_name}\b", f"({val})", text); every token
\* that is the identifier arg_name is replaced by the parenthesised value.
RECURSIVE ReSub(_, _, _)
ReSub(text, arg_name, val) ==
    IF text = <<>> THEN <<>>
    ELSE (IF Head(text) = arg_name THEN <<"(">> \o val \o <<")">> ELSE <<Head(text)>>)
         \o ReSub(Tail(text), arg_name, val)

\* Lines 163-169: the for loop of _substitute_arguments from position k of the
\* sorted formal parameters; one re.sub after the other on the same text.
RECURSIVE SubstituteFrom(_, _, _, _, _)
SubstituteFrom(text, order, k, def_args, args) ==
    IF k > Len(order) THEN text
    ELSE SubstituteFrom(IF order[k] <= Len(args)
                        THEN ReSub(text, def_args[order[k]], args[order[k]])
                        ELSE text,
                        order, k + 1, def_args, args)

\* Lines 144-171: _substitute_arguments.
SubstituteArguments(body, def_args, args) ==
    SubstituteFrom(<<"(">> \o body \o <<")">>, SortedDefArgs(def_args), 1, def_args, args)

\* Line 71: str.replace(old, new, 1); the first occurrence of old is replaced.
ReplaceFirst(text, old, new) ==
    LET at == {i \in 1..(Len(text) - Len(old) + 1) :
                  SubSeq(text, i, i + Len(old) - 1) = old}
        i == CHOOSE i \in at : \A j \in at : i <= j
    IN  IF at = {} THEN text
        ELSE SubSeq(text, 1, i - 1) \o new \o SubSeq(text, i + Len(old), Len(text))

\* Lines 47-73: the for loop over the function table from entry k; the first
\* function with a call whose closing parenthesis is found is substituted.
\* [found, expression, k, args]: k is the entry substituted, args its actual
\* arguments.
RECURSIVE InlineOne(_, _, _)
InlineOne(expr, fns, k) ==
    IF k > Len(fns)
    THEN [found |-> FALSE, expression |-> expr, k |-> 0, args |-> <<>>]
    ELSE LET start == FindCall(expr, fns[k].id)
             ext == ExtractArguments(expr, start + 2, 1, <<>>)
             args == SplitArguments(ext.args, 1, <<>>, 0, <<>>)
             full_match == SubSeq(expr, start, ext.end - 1)
         IN  IF start # 0 /\ ext.found
             THEN [found |-> TRUE,
                   expression |->
                       ReplaceFirst(expr, full_match,
                                    SubstituteArguments(fns[k].mathString,
                                                        fns[k].arguments, args)),
                   k |-> k, args |-> args]
             ELSE InlineOne(expr, fns, k + 1)

\* Mutant of InlineLoopCond: the loop is not bounded.
InlineLoopCond_Unbounded == TRUE

\* Line 45: while depth < self.max_depth.
InlineLoopCond == depth < max_depth

\* Line 77: depth += 1.
NextDepth(d) == d + 1

\* Lines 45-79: one pass of the while loop. A pass that substitutes a call
\* goes on to the next pass; a pass that finds nothing leaves the loop and
\* inline returns the expression.
InlinePass ==
    /\ UNCHANGED notInliner
    /\ fi_pc = "loop"
    /\ InlineLoopCond
    /\ LET r == InlineOne(expression, functions, 1)
       IN  IF r.found
           THEN /\ expression' = r.expression
                /\ depth' = NextDepth(depth)
                /\ fi_pc' = fi_pc
           ELSE /\ expression' = expression
                /\ depth' = depth
                /\ fi_pc' = "returned"
    /\ UNCHANGED <<functions, inline_arg>>

\* Lines 45 and 79: the loop ends at max_depth and inline returns.
InlineReturn ==
    /\ UNCHANGED notInliner
    /\ fi_pc = "loop"
    /\ ~InlineLoopCond
    /\ fi_pc' = "returned"
    /\ UNCHANGED <<functions, inline_arg, expression, depth>>

\* The formal parameter lists and bodies of the function definitions that
\* are enumerated.
DefArguments == {<<"x">>, <<"x", "y">>, <<"xy", "x">>}

DefBodies ==
    {<<"x", "+", "k">>, <<"x", "+", "y">>, <<"xy", "*", "x">>,
     <<"f", "(", "x", ")">>, <<"g", "(", "x", ")">>}

FunctionDefs(id) == [id : {id}, arguments : DefArguments, mathString : DefBodies]

\* n calls f(a) joined by "+"; the identifier a alone for n = 0.
RECURSIVE CallSites(_)
CallSites(n) ==
    IF n = 0 THEN <<"a">>
    ELSE IF n = 1 THEN <<"f", "(", "a", ")">>
    ELSE CallSites(n - 1) \o <<"+", "f", "(", "a", ")">>

\* The expressions inline is called with: up to MaxCallSites calls in a row,
\* a call whose argument names a formal parameter, nested calls, a call with
\* a comma inside nested parentheses, a call after a longer identifier that
\* ends with the function name, a call without arguments and calls whose
\* parenthesis is not closed.
InlineExpressions ==
    {CallSites(n) : n \in 0..MaxCallSites}
    \cup {<<"f", "(", "y", ",", "b", ")">>,
          <<"f", "(", "g", "(", "a", ")", ",", "b", ")">>,
          <<"g", "(", "f", "(", "a", ")", ")">>,
          <<"f", "(", "h", "(", "a", ",", "b", ")", ",", "c", ")">>,
          <<"g", "f", "(", "a", ")", "+", "f", "(", "a", ")">>,
          <<"f", "(", ")">>,
          <<"f", "(", "a">>,
          <<"f", "(", "a", "+", "g", "(", "b", ")">>}

\* Lines 11-19 and 44: an inliner over a table of at most two functions, f
\* and g in either dict order, enters inline.
InlinerInit ==
    /\ \/ functions = <<>>
       \/ \E id \in {"f", "g"} : \E d \in FunctionDefs(id) : functions = <<d>>
       \/ \E d1 \in FunctionDefs("f"), d2 \in FunctionDefs("g") :
             functions \in {<<d1, d2>>, <<d2, d1>>}
    /\ inline_arg \in InlineExpressions
    /\ expression = inline_arg
    /\ depth = 0
    /\ fi_pc = "loop"

InlinerIdle ==
    /\ functions = <<>>
    /\ inline_arg = <<>>
    /\ expression = <<>>
    /\ depth = 0
    /\ fi_pc = "idle"

InlinerNext ==
    \/ InlinePass
    \/ InlineReturn

\* ------------------------------------------------------ claims on inline

\* The expression holds a call site of a function of the table.
HasCallSite(expr) == \E k \in DOMAIN functions : FindCall(expr, functions[k].id) # 0

\* The functions that the body of function k names.
BodyCalls(k) == {j \in DOMAIN functions : functions[j].id \in Range(functions[k].mathString)}

RECURSIVE CallReach(_)
CallReach(S) ==
    LET T == S \cup UNION {BodyCalls(k) : k \in S}
    IN  IF T = S THEN S ELSE CallReach(T)

\* No function definition is directly or mutually recursive.
NoRecursiveDefinition == \A k \in DOMAIN functions : k \notin CallReach(BodyCalls(k))

\* The parentheses of a token list are balanced.
RECURSIVE ParenDepth(_, _)
ParenDepth(text, i) ==
    IF i = 0 THEN 0
    ELSE ParenDepth(text, i - 1)
         + (IF text[i] = "(" THEN 1 ELSE IF text[i] = ")" THEN -1 ELSE 0)

Balanced(text) ==
    /\ ParenDepth(text, Len(text)) = 0
    /\ \A i \in DOMAIN text : ParenDepth(text, i) >= 0

\* C12: inline terminates after at most max_depth = 10 substitutions, whatever
\* the table (self-referential and mutually recursive definitions included):
\* the counter never passes max_depth, every step of the loop either
\* substitutes one call and counts it or returns, and a pass that finds no
\* call site returns.
C12_InlineTerminates ==
    /\ [](depth <= max_depth /\ fi_pc \in {"loop", "returned"})
    /\ [][fi_pc = "loop" =>
             /\ \/ expression' # expression /\ depth' = depth + 1 /\ fi_pc' = "loop"
                \/ expression' = expression /\ depth' = depth /\ fi_pc' = "returned"
             /\ ~HasCallSite(expression) => fi_pc' = "returned"]_vars

\* C12 witness: inline has returned after max_depth substitutions with a call
\* of a self-referential function still in the expression.
C12_Witness ==
    /\ fi_pc = "returned"
    /\ depth = max_depth
    /\ \E k \in DOMAIN functions : k \in BodyCalls(k)
    /\ HasCallSite(expression)

\* The formal parameters replaced at once: every token of the parenthesised
\* body that is a formal parameter with an actual argument becomes that
\* argument in parentheses, and no other token changes.
SimultaneousSubstitution(body, def_args, args) ==
    LET text == <<"(">> \o body \o <<")">>
        Actual(tok) ==
            IF \E i \in DOMAIN def_args : def_args[i] = tok /\ i <= Len(args)
            THEN <<"(">> \o args[CHOOSE i \in DOMAIN def_args : def_args[i] = tok] \o <<")">>
            ELSE <<tok>>
        Glue[i \in 0..Len(text)] == IF i = 0 THEN <<>> ELSE Glue[i - 1] \o Actual(text[i])
    IN  Glue[Len(text)]

\* The text of the call that the next pass substitutes.
PendingCallText ==
    LET r == InlineOne(expression, functions, 1)
        start == FindCall(expression, functions[r.k].id)
    IN  SubSeq(expression, start,
               ExtractArguments(expression, start + 2, 1, <<>>).end - 1)

\* C14: a pass that inlines a call with as many actual arguments as formal
\* parameters puts in its place the parenthesised body in which every formal
\* parameter is replaced by its own actual argument in parentheses, the
\* actual arguments themselves left as they were written.
C14_SimultaneousSubstitution ==
    [][(fi_pc = "loop" /\ expression' # expression) =>
          LET r == InlineOne(expression, functions, 1)
              def == functions[r.k]
          IN  Len(r.args) = Len(def.arguments) =>
                  expression' =
                      ReplaceFirst(expression, PendingCallText,
                                   SimultaneousSubstitution(def.mathString,
                                                            def.arguments, r.args))]_vars

\* C13: when no definition is directly or mutually recursive and the
\* parentheses of the expression are balanced, the string inline returns holds
\* no call of a function of the table, for any number of call sites.
C13_NoCallLeft ==
    (fi_pc = "returned" /\ NoRecursiveDefinition /\ Balanced(inline_arg))
        => ~HasCallSite(expression)

\* The position of the parenthesis that balances the one at position open of
\* text; 0 when there is none.
ClosingParen(text, open) ==
    LET closes == {j \in (open + 1)..Len(text) :
                      ParenDepth(text, j) = ParenDepth(text, open) - 1}
    IN  IF closes = {} THEN 0 ELSE CHOOSE j \in closes : \A c \in closes : j <= c

\* The pieces of text between its commas of nesting depth 0.
TopLevelPieces(text) ==
    LET commas == {i \in DOMAIN text : text[i] = "," /\ ParenDepth(text, i) = 0}
        cuts == {0} \cup commas \cup {Len(text) + 1}
        After(c) == CHOOSE d \in cuts : d > c /\ \A e \in cuts : e > c => d <= e
        Cut[n \in 0..Cardinality(commas)] == IF n = 0 THEN 0 ELSE After(Cut[n - 1])
    IN  [n \in 1..(Cardinality(commas) + 1) |->
            SubSeq(text, Cut[n - 1] + 1, After(Cut[n - 1]) - 1)]

\* C25: for the first call of every function of the table, when the opening
\* parenthesis is balanced and no argument is empty, the arguments extracted
\* are the pieces, between commas of nesting depth 0, of the text between the
\* opening parenthesis and the one that balances it; when the opening
\* parenthesis is never balanced nothing is extracted, and a pass that finds
\* only such calls leaves the expression as it is.
C25_ArgumentsAreTopLevelPieces ==
    fi_pc = "loop" =>
        /\ \A k \in DOMAIN functions :
              LET start == FindCall(expression, functions[k].id)
                  close == ClosingParen(expression, start + 1)
                  ext == ExtractArguments(expression, start + 2, 1, <<>>)
                  inner == SubSeq(expression, start + 2, close - 1)
              IN  start # 0 =>
                      IF close = 0 THEN ~ext.found
                      ELSE /\ ext.found
                           /\ ext.end = close + 1
                           /\ (\A n \in DOMAIN TopLevelPieces(inner) :
                                    TopLevelPieces(inner)[n] # <<>>)
                               => SplitArguments(ext.args, 1, <<>>, 0, <<>>)
                                      = TopLevelPieces(inner)
        /\ (\A k \in DOMAIN functions :
                LET start == FindCall(expression, functions[k].id)
                IN  start = 0 \/ ClosingParen(expression, start + 1) = 0)
            => InlineOne(expression, functions, 1).expression = expression

\* C25 witness: the call to substitute next has two arguments, the first of
\* which holds a comma inside nested parentheses.
C25_Witness ==
    /\ fi_pc = "loop"
    /\ functions # <<>>
    /\ LET r == InlineOne(expression, functions, 1)
       IN  /\ r.found
           /\ Len(r.args) = 2
           /\ \E i \in DOMAIN r.args[1] : r.args[1][i] = ","

\* C27: a pass that substitutes a call replaces the call site it matched, from
\* the function name to the balancing parenthesis, and leaves the text before
\* and after that call site as it was.
C27_ReplacesMatchedCallSite ==
    [][(fi_pc = "loop" /\ InlineLoopCond /\ InlineOne(expression, functions, 1).found)
       => LET r == InlineOne(expression, functions, 1)
              start == FindCall(expression, functions[r.k].id)
              ext == ExtractArguments(expression, start + 2, 1, <<>>)
          IN  expression' =
                  SubSeq(expression, 1, start - 1)
                  \o SubstituteArguments(functions[r.k].mathString,
                                         functions[r.k].arguments, r.args)
                  \o SubSeq(expression, ext.end, Len(expression))]_vars

\* ============================== sbml_piecewise ==============================
\* The arguments are numbered from 0 as in the source: argument k of the call
\* is pw_args[k + 1].

\* Mutant of PairAt: the value is paired with itself.
PairAt_SameArgument(args, i) == <<args[i + 1], args[i + 1]>>

\* Line 491: (args[i], args[i + 1]).
PairAt(args, i) == <<args[i + 1], args[i + 2]>>

\* Line 494: len(args) % 2 == 1.
HasDefault(args) == Len(args) % 2 = 1

\* Line 495: (args[-1], True).
DefaultPair(args) == <<args[Len(args)], "True">>

\* Line 490: for i in range(0, len(args) - 1, 2).
PairLoopCond == pw_i < Len(pw_args) - 1

\* Lines 490-491: one iteration of the for loop.
PairUp ==
    /\ UNCHANGED notPiecewise
    /\ pw_pc = "pairing"
    /\ PairLoopCond
    /\ pw_pairs' = Append(pw_pairs, PairAt(pw_args, pw_i))
    /\ pw_i' = pw_i + 2
    /\ UNCHANGED <<pw_args, pw_pc>>

\* Lines 493-497: the loop is over; the default is appended for an odd number
\* of arguments and the Piecewise of the pairs is returned.
PiecewiseReturn ==
    /\ UNCHANGED notPiecewise
    /\ pw_pc = "pairing"
    /\ ~PairLoopCond
    /\ pw_pairs' = IF HasDefault(pw_args) THEN Append(pw_pairs, DefaultPair(pw_args)) ELSE pw_pairs
    /\ pw_pc' = "returned"
    /\ UNCHANGED <<pw_args, pw_i>>

\* The texts of the arguments that are enumerated.
PiecewiseArgTexts == {"a", "b", "c"}

\* Lines 482-488: sbml_piecewise is called with 1 to MaxPiecewiseArgs arguments.
PiecewiseInit ==
    /\ \E n \in 1..MaxPiecewiseArgs : pw_args \in [1..n -> PiecewiseArgTexts]
    /\ pw_pairs = <<>>
    /\ pw_i = 0
    /\ pw_pc = "pairing"

PiecewiseIdle ==
    /\ pw_args = <<>>
    /\ pw_pairs = <<>>
    /\ pw_i = 0
    /\ pw_pc = "idle"

PiecewiseNext ==
    \/ PairUp
    \/ PiecewiseReturn

Sym(name) == [kind |-> "Symbol", name |-> name, is_integer |-> FALSE]

IntegerSym(name) == [kind |-> "Symbol", name |-> name, is_integer |-> TRUE]

IntegerLit(value) == [kind |-> "Integer", value |-> value]

\* str(n) for the integers that are enumerated.
IntText(n) ==
    CASE n = -3 -> "-3" [] n = -2 -> "-2" [] n = -1 -> "-1" [] n = 0 -> "0"
      [] n = 1 -> "1" [] n = 2 -> "2" [] n = 3 -> "3" [] n = 4 -> "4"

IntTexts == {IntText(n) : n \in -3..4}

\* Lines 79-81 and 52-53: text + ".0" for a text that re.match(r"^-?\d+$")
\* accepts.
FloatForm(text) ==
    CASE text = "-3" -> "-3.0" [] text = "-2" -> "-2.0" [] text = "-1" -> "-1.0"
      [] text = "0" -> "0.0" [] text = "1" -> "1.0" [] text = "2" -> "2.0"
      [] text = "3" -> "3.0" [] text = "4" -> "4.0"

\* Lines 52 and 80: re.match(r"^-?\d+$", code).
IsIntegerLiteral(code) == Len(code) = 1 /\ code[1] \in IntTexts

EnsureFloat(code) == IF IsIntegerLiteral(code) THEN <<FloatForm(code[1])>> ELSE code

\* Line 41: expr.base.has(sympy.Piecewise), for the expressions enumerated.
HasPiecewise(e) ==
    \/ e.kind = "Piecewise"
    \/ e.kind \in {"Add", "Mul"} /\ \E i \in DOMAIN e.args : e.args[i].kind = "Piecewise"

\* Lines 34 and 36: exp.is_integer and exp.is_number.
IsInteger(e) == e.kind = "Integer" \/ (e.kind = "Symbol" /\ e.is_integer)

IsNumber(e) == e.kind \in {"Integer", "Float", "Rational"}

\* The printed terms of an Add or a Mul, joined by the operator.
RECURSIVE Join(_, _)
Join(codes, op) ==
    IF Len(codes) = 1 THEN codes[1]
    ELSE codes[1] \o <<op>> \o Join(Tail(codes), op)

\* Mutant of PowGuardNeeded: no power is guarded.
PowGuardNeeded_Never(exp_val, base) == FALSE

\* Line 41: exp_val < 0 and expr.base.has(sympy.Piecewise).
PowGuardNeeded(exp_val, base) == exp_val < 0 /\ HasPiecewise(base)

\* Line 69: i == len(expr.args) - 1 and c == True (i counted from 1 here).
IsDefaultBranch(i, n, c) == i = n /\ c = "True"

\* self._print(expr): the printer method of the node kind. Lines 13-54 print
\* a Pow, lines 56-85 a Piecewise, lines 87-96 an Integer, lines 118-127 a
\* Rational; symbols, floats, relations, sums and products are printed by the
\* base class.
RECURSIVE PrintExpr(_)
PrintBranch(e, i) ==
    LET c == e.args[i].c
        head == IF i = 1 THEN <<"if", c, "{">>
                ELSE IF IsDefaultBranch(i, Len(e.args), c) THEN <<"}", "else", "{">>
                ELSE <<"}", "else", "if", c, "{">>
    IN  head \o EnsureFloat(PrintExpr(e.args[i].e))

RECURSIVE PrintBranches(_, _)
PrintBranches(e, i) ==
    IF i > Len(e.args) THEN <<"}">>
    ELSE PrintBranch(e, i) \o PrintBranches(e, i + 1)

PrintPow(e) ==
    LET printed == PrintExpr(e.base)
        needs_parens == e.base.kind \in {"Add", "Mul"}
        base == IF needs_parens /\ Head(printed) # "("
                THEN <<"(">> \o printed \o <<")">>
                ELSE printed
    IN  IF IsInteger(e.exp)
        THEN IF IsNumber(e.exp)
             THEN IF PowGuardNeeded(e.exp.value, e.base)
                  THEN <<"(", "if">> \o base \o <<"!=", "0.0", "{">> \o base
                       \o <<".powi(", IntText(e.exp.value), ")", "}", "else", "{",
                            "f64::INFINITY", "}", ")">>
                  ELSE base \o <<".powi(", IntText(e.exp.value), ")">>
             ELSE base \o <<".powi(">> \o PrintExpr(e.exp) \o <<"as i32", ")">>
        ELSE base \o <<".powf(">> \o EnsureFloat(PrintExpr(e.exp)) \o <<")">>

PrintExpr(e) ==
    CASE e.kind = "Symbol" -> <<e.name>>
      [] e.kind = "Integer" -> <<FloatForm(IntText(e.value))>>
      [] e.kind = "Float" -> <<e.text>>
      [] e.kind = "Rational" ->
            <<FloatForm(IntText(e.p)), "/", FloatForm(IntText(e.q))>>
      [] e.kind = "Add" -> Join([i \in DOMAIN e.args |-> PrintExpr(e.args[i])], "+")
      [] e.kind = "Mul" ->
            Join([i \in DOMAIN e.args |->
                     IF e.args[i].kind = "Add"
                     THEN <<"(">> \o PrintExpr(e.args[i]) \o <<")">>
                     ELSE PrintExpr(e.args[i])], "*")
      [] e.kind = "Piecewise" -> PrintBranches(e, 1)
      [] e.kind = "Pow" -> PrintPow(e)

\* rust_printer.py lines 139-148: RustCodeGenerator.generate.
Generate ==
    /\ UNCHANGED notPrinter
    /\ print_pc = "generate"
    /\ print_out' = PrintExpr(print_expr)
    /\ print_pc' = "printed"
    /\ UNCHANGED print_expr

\* expression_parser.py lines 482-497: sbml_piecewise as a function of its
\* argument list; a pair is kept as the (e, c) branch of the Piecewise.
SbmlPiecewise(args) ==
    LET n == Len(args)
        paired == [k \in 1..(n \div 2) |->
                      [e |-> PairAt(args, 2 * (k - 1))[1], c |-> PairAt(args, 2 * (k - 1))[2]]]
        default == IF HasDefault(args)
                   THEN <<[e |-> DefaultPair(args)[1], c |-> DefaultPair(args)[2]]>>
                   ELSE <<>>
    IN  [kind |-> "Piecewise", args |-> paired \o default]

BranchValues == {Sym("x"), IntegerLit(0)}

BranchConditions == {"c1", "c2"}

\* The argument lists of piecewise(...): a value, a condition, ..., and a
\* trailing default value when the length is odd.
PiecewiseCalls ==
    UNION {{[i \in 1..n |-> IF i % 2 = 1 THEN vs[(i + 1) \div 2] ELSE cs[i \div 2]] :
               vs \in [1..((n + 1) \div 2) -> BranchValues],
               cs \in [1..(n \div 2) -> BranchConditions]} :
           n \in 2..(2 * MaxBranches + 1)}

PiecewiseExpressions == {SbmlPiecewise(args) : args \in PiecewiseCalls}

PowBases ==
    {Sym("x"), [kind |-> "Add", args |-> <<Sym("x"), Sym("y")>>],
     [kind |-> "Mul", args |-> <<Sym("x"), Sym("y")>>]}
    \cup PiecewiseExpressions
    \cup {[kind |-> k, args |-> <<Sym("y"), pw>>] :
             k \in {"Add", "Mul"}, pw \in PiecewiseExpressions}

PowExponents ==
    {IntegerLit(v) : v \in {-2, -1, 2, 3}}
    \cup {IntegerSym("n"), Sym("z"), [kind |-> "Float", text |-> "2.5"],
          [kind |-> "Float", text |-> "-1.5"], [kind |-> "Rational", p |-> 1, q |-> 2]}

PowExpressions == {[kind |-> "Pow", base |-> b, exp |-> x] : b \in PowBases, x \in PowExponents}

PrinterInit ==
    /\ \/ \E pw \in PiecewiseExpressions : print_expr = pw
       \/ \E pow \in PowExpressions : print_expr = pow
    /\ print_out = <<>>
    /\ print_pc = "generate"

PrinterIdle ==
    /\ print_expr = Sym("x")
    /\ print_out = <<>>
    /\ print_pc = "idle"

PrinterNext == Generate

\* The guarded conditional of lines 40-42 around a printed base b and a
\* literal exponent k.
GuardedPower(b, k) ==
    <<"(", "if">> \o b \o <<"!=", "0.0", "{">> \o b
    \o <<".powi(", k, ")", "}", "else", "{", "f64::INFINITY", "}", ")">>

IsPowerCall(token) == token \in {".powi(", ".powf("}

HasTrueDefault(e) == e.args[Len(e.args)].c = "True"

\* C17: the code printed for a Piecewise without a True default has a final
\* unconditional else branch (the code raises nowhere on such a Piecewise, so
\* printing it is the only outcome).
C17_MissingDefaultHasElse ==
    (/\ print_pc = "printed"
     /\ print_expr.kind = "Piecewise"
     /\ ~HasTrueDefault(print_expr))
    => \E i \in DOMAIN print_out :
          /\ i + 1 \in DOMAIN print_out
          /\ print_out[i] = "else"
          /\ print_out[i + 1] = "{"
          /\ \A j \in (i + 1)..Len(print_out) : print_out[j] # "if"

\* ================= JacobianBuilder.compute_sparse_jacobian =================
\* An expression of the ODE system is a polynomial in the species symbols: a
\* set of terms with distinct monomials and non-zero coefficients, which is the
\* form sympy keeps a sum in. The zero expression is the empty sum.

SpeciesPool == <<"s1", "s2", "s3", "s4">>

SpeciesIds(n) == {SpeciesPool[k] : k \in 1..n}

\* self.species_symbols: the symbol of a species is named by its id.
species_symbols(n) == [id \in SpeciesIds(n) |-> id]

Monomial(n, ids) == [id \in SpeciesIds(n) |-> Cardinality({k \in DOMAIN ids : ids[k] = id})]

Term(coef, powers) == [coef |-> coef, powers |-> powers]

Zero == {}

\* sympy.diff(expr, symbol).doit() on a polynomial: each term that has the
\* symbol loses one power of it and is scaled by that power; the others vanish.
Diff(expr, symbol) ==
    {Term(t.coef * t.powers[symbol], [t.powers EXCEPT ![symbol] = @ - 1]) :
        t \in {u \in expr : u.powers[symbol] > 0}}

\* Mutant of IsNonZero: every derivative is stored.
IsNonZero_Always(derivative) == TRUE

\* Line 70: derivative != 0.
IsNonZero(derivative) == derivative # Zero

n_species == Len(species_list)

jac_derivative ==
    Diff(jac_ode_system[jac_i + 1], species_symbols(n_species)[species_list[jac_j + 1]])

\* Lines 65-66: the two range(self.n_species) loops, advanced by one step.
JacAdvance ==
    IF jac_j + 1 < n_species
    THEN jac_j' = jac_j + 1 /\ UNCHANGED jac_i
    ELSE jac_j' = 0 /\ jac_i' = jac_i + 1

\* Lines 67-72 with a non-zero derivative.
StoreDerivative ==
    /\ UNCHANGED notJacobian
    /\ jac_pc = "loop"
    /\ jac_i < n_species
    /\ IsNonZero(jac_derivative)
    /\ jac_indices' = Append(jac_indices, <<jac_i, jac_j>>)
    /\ jacobian_elements' = Append(jacobian_elements, jac_derivative)
    /\ JacAdvance
    /\ UNCHANGED <<species_list, jac_ode_system, jac_pc>>

\* Lines 67-70 with a zero derivative.
SkipZeroDerivative ==
    /\ UNCHANGED notJacobian
    /\ jac_pc = "loop"
    /\ jac_i < n_species
    /\ ~IsNonZero(jac_derivative)
    /\ JacAdvance
    /\ UNCHANGED <<species_list, jac_ode_system, jacobian_elements, jac_indices, jac_pc>>

\* Lines 74-76.
JacobianReturn ==
    /\ UNCHANGED notJacobian
    /\ jac_pc = "loop"
    /\ jac_i >= n_species
    /\ jac_pc' = "returned"
    /\ UNCHANGED <<species_list, jac_ode_system, jacobian_elements, jac_indices, jac_i, jac_j>>

\* The right-hand sides enumerated for a system of n species: zero, a
\* constant, a species, a product of two species, a difference of two species.
OdeExpressions(n) ==
    LET ids == SpeciesIds(n)
    IN  {Zero, {Term(2, Monomial(n, <<>>))}}
        \cup {{Term(1, Monomial(n, <<a>>))} : a \in ids}
        \cup {{Term(3, Monomial(n, <<a, b>>))} : a \in ids, b \in ids}
        \cup {{Term(1, Monomial(n, <<ab[1]>>)), Term(-1, Monomial(n, <<ab[2]>>))} :
                 ab \in {cd \in ids \X ids : cd[1] # cd[2]}}

JacobianInit ==
    /\ \E n \in 1..MaxSpecies :
          /\ species_list = [k \in 1..n |-> SpeciesPool[k]]
          /\ jac_ode_system \in [1..n -> OdeExpressions(n)]
    /\ jacobian_elements = <<>>
    /\ jac_indices = <<>>
    /\ jac_i = 0
    /\ jac_j = 0
    /\ jac_pc = "loop"

JacobianIdle ==
    /\ species_list = <<>>
    /\ jac_ode_system = <<>>
    /\ jacobian_elements = <<>>
    /\ jac_indices = <<>>
    /\ jac_i = 0
    /\ jac_j = 0
    /\ jac_pc = "idle"

JacobianNext ==
    \/ StoreDerivative
    \/ SkipZeroDerivative
    \/ JacobianReturn

\* The derivative of entry row with respect to the species of column col.
Partial(row, col) == Diff(jac_ode_system[row + 1], species_list[col + 1])

RowMajorBefore(a, b) == a[1] < b[1] \/ (a[1] = b[1] /\ a[2] < b[2])

\* C18: the returned element and index lists have equal length; every index
\* is inside the matrix; the indices are strictly increasing in row-major
\* order (so none occurs twice); a (row, col) is absent exactly when the
\* derivative of entry row with respect to species col is the zero expression,
\* and the element stored with an index is that derivative.
C18_SparseJacobian ==
    jac_pc = "returned" =>
        /\ Len(jacobian_elements) = Len(jac_indices)
        /\ \A k \in DOMAIN jac_indices :
              /\ jac_indices[k][1] \in 0..(n_species - 1)
              /\ jac_indices[k][2] \in 0..(n_species - 1)
              /\ jacobian_elements[k] = Partial(jac_indices[k][1], jac_indices[k][2])
        /\ \A k, l \in DOMAIN jac_indices : k # l => jac_indices[k] # jac_indices[l]
        /\ \A k, l \in DOMAIN jac_indices :
              k < l => RowMajorBefore(jac_indices[k], jac_indices[l])
        /\ \A row, col \in 0..(n_species - 1) :
              (<<row, col>> \notin Range(jac_indices)) <=> (Partial(row, col) = Zero)

C18_Witness ==
    /\ jac_pc = "returned"
    /\ n_species = 2
    /\ jac_indices = <<<<0, 1>>, <<1, 0>>, <<1, 1>>>>

\* =================== SymbolicOptimizer.optimize_combined ===================
\* Expressions are the records the printer prints. A sum is an Add of terms;
\* sympy.cse and sympy.simplify are library code, modelled on sums whose terms
\* are symbols, products of symbols and powers.

TermsOf(e) == IF e.kind = "Add" THEN e.args ELSE <<e>>

AddOf(terms) == IF Len(terms) = 1 THEN terms[1] ELSE [kind |-> "Add", args |-> terms]

IsCompound(t) == t.kind \in {"Mul", "Pow", "Piecewise"}

RECURSIVE Flatten(_)
Flatten(seqs) == IF seqs = <<>> THEN <<>> ELSE Head(seqs) \o Flatten(Tail(seqs))

\* The compound terms that occur more than once, in order of first occurrence.
RECURSIVE Repeated(_, _, _)
Repeated(terms, i, acc) ==
    IF i > Len(terms) THEN acc
    ELSE IF /\ IsCompound(terms[i])
            /\ Occurrences(terms[i], terms) >= 2
            /\ terms[i] \notin Range(acc)
         THEN Repeated(terms, i + 1, Append(acc, terms[i]))
         ELSE Repeated(terms, i + 1, acc)

TempNames == <<"x0", "x1", "x2", "x3", "x4", "x5">>

\* Lines 51-55: sympy.cse(expressions): the (symbol, expression) pairs and the
\* expressions with each repeated term replaced by its symbol.
CseReplacements(exprs) ==
    LET rep == Repeated(Flatten([k \in DOMAIN exprs |-> TermsOf(exprs[k])]), 1, <<>>)
    IN  [k \in DOMAIN rep |-> <<Sym(TempNames[k]), rep[k]>>]

CseReduce(e, reps) ==
    AddOf([i \in DOMAIN TermsOf(e) |->
              IF \E k \in DOMAIN reps : reps[k][2] = TermsOf(e)[i]
              THEN reps[CHOOSE k \in DOMAIN reps : reps[k][2] = TermsOf(e)[i]][1]
              ELSE TermsOf(e)[i]])

\* Line 79: sympy.simplify: a sum of two products with the same first factor
\* is factored; any other expression enumerated is returned as it is.
Simplify(e) ==
    IF /\ e.kind = "Add"
       /\ Len(e.args) = 2
       /\ e.args[1].kind = "Mul"
       /\ e.args[2].kind = "Mul"
       /\ e.args[1].args[1] = e.args[2].args[1]
    THEN [kind |-> "Mul",
          args |-> <<e.args[1].args[1],
                     [kind |-> "Add", args |-> <<e.args[1].args[2], e.args[2].args[2]>>]>>]
    ELSE e

\* sympy.preorder_traversal(expr) as a set.
RECURSIVE Subexpressions(_)
Subexpressions(e) ==
    {e} \cup
    CASE e.kind \in {"Add", "Mul"} -> UNION {Subexpressions(e.args[i]) : i \in DOMAIN e.args}
      [] e.kind = "Pow" -> Subexpressions(e.base) \cup Subexpressions(e.exp)
      [] e.kind = "Piecewise" -> UNION {Subexpressions(e.args[i].e) : i \in DOMAIN e.args}
      [] OTHER -> {}

\* Lines 224-239: _expr_can_be_zero.
ExprCanBeZero(e) ==
    \E piece \in Subexpressions(e) :
        /\ piece.kind = "Piecewise"
        /\ \E i \in DOMAIN piece.args : piece.args[i].e = IntegerLit(0)

\* Lines 241-254: _contains_zero_symbol.
ContainsZeroSymbol(e, zero_symbols) ==
    \E sub \in Subexpressions(e) : sub.kind = "Symbol" /\ sub \in zero_symbols

\* Lines 269-280: is_unsafe_base.
IsUnsafeBase(base, zero_symbols) ==
    \/ base.kind = "Symbol" /\ base \in zero_symbols
    \/ ExprCanBeZero(base)
    \/ ContainsZeroSymbol(base, zero_symbols)

\* Lines 187, 295, 301: exp.is_number and exp < 0, for the exponents enumerated.
IsNegativeNumber(x) == x.kind = "Integer" /\ x.value < 0

\* Lines 282-292: safe_pow.
SafePow(base, exp, zero_symbols) ==
    IF exp.value < 0 /\ IsUnsafeBase(base, zero_symbols)
    THEN [kind |-> "Piecewise",
          args |-> <<[e |-> [kind |-> "Pow", base |-> base, exp |-> exp], c |-> "base != 0"],
                     [e |-> [kind |-> "Float", text |-> "1e10"], c |-> "True"]>>]
    ELSE [kind |-> "Pow", base |-> base, exp |-> exp]

\* Lines 294-303: _make_division_safe; expr.replace rewrites bottom-up.
RECURSIVE MakeDivisionSafe(_, _)
MakeDivisionSafe(e, zero_symbols) ==
    IF e.kind = "Pow" /\ IsNegativeNumber(e.exp) /\ IsUnsafeBase(e.base, zero_symbols)
    THEN SafePow(e.base, e.exp, zero_symbols)
    ELSE CASE e.kind \in {"Add", "Mul"} ->
                 [e EXCEPT !.args = [i \in DOMAIN e.args |->
                                        MakeDivisionSafe(e.args[i], zero_symbols)]]
           [] e.kind = "Pow" ->
                 IF IsNegativeNumber(e.exp)
                 THEN SafePow(MakeDivisionSafe(e.base, zero_symbols), e.exp, zero_symbols)
                 ELSE [e EXCEPT !.base = MakeDivisionSafe(e.base, zero_symbols)]
           [] OTHER -> e

\* Lines 180-209: has_unsafe_pow.
HasUnsafePow(e, zero_symbols) ==
    \E sub \in Subexpressions(e) :
        /\ sub.kind = "Pow"
        /\ IsNegativeNumber(sub.exp)
        /\ IsUnsafeBase(sub.base, zero_symbols)

\* Lines 150-222: _ensure_safe_divisions, from replacement i on.
RECURSIVE EnsureSafeDivisions(_, _, _, _)
EnsureSafeDivisions(reps, i, zero_symbols, safe_replacements) ==
    IF i > Len(reps) THEN safe_replacements
    ELSE LET sym == reps[i][1]
             expr == reps[i][2]
             zs == IF ExprCanBeZero(expr) THEN zero_symbols \cup {sym} ELSE zero_symbols
             safe_expr == IF HasUnsafePow(expr, zs) THEN MakeDivisionSafe(expr, zs) ELSE expr
         IN  EnsureSafeDivisions(reps, i + 1, zs, Append(safe_replacements, <<sym, safe_expr>>))

\* Lines 24-65: optimize.
Optimize(level, expressions) ==
    IF level = 0
    THEN [replacements |-> <<>>, reduced |-> expressions]
    ELSE IF level >= 2
         THEN LET reps == CseReplacements(expressions)
              IN  [replacements |-> EnsureSafeDivisions(reps, 1, {}, <<>>),
                   reduced |-> [k \in DOMAIN expressions |-> CseReduce(expressions[k], reps)]]
         ELSE [replacements |-> <<>>,
               reduced |-> [k \in DOMAIN expressions |-> Simplify(expressions[k])]]

\* Mutant of SplitPoint: the reduced list is split at the Jacobian's length.
SplitPoint_JacobianLength(ode, jacobian) == Len(jacobian)

\* Line 133: n_ode = len(ode_system).
SplitPoint(ode, jacobian) == Len(ode)

\* Lines 106-137: optimize_combined.
OptimizeCombined ==
    /\ UNCHANGED notOptimizer
    /\ opt_pc = "optimize_combined"
    /\ LET all_exprs == opt_ode_system \o opt_jacobian
           result == Optimize(optimization_level, all_exprs)
           n_ode == SplitPoint(opt_ode_system, opt_jacobian)
       IN  /\ opt_replacements' = result.replacements
           /\ reduced_ode' = SubSeq(result.reduced, 1, n_ode)
           /\ reduced_jac' = SubSeq(result.reduced, n_ode + 1, Len(result.reduced))
    /\ opt_pc' = "generate_jacobian"
    /\ UNCHANGED <<optimization_level, opt_ode_system, opt_jacobian, opt_indices, jac_block>>

\* code_generator.py lines 70-91: generate_jacobian(reduced_jac, jac_indices);
\* jac_elements[k] raises IndexError when the element list is the shorter one.
GenerateJacobian ==
    /\ UNCHANGED notOptimizer
    /\ opt_pc = "generate_jacobian"
    /\ IF Len(opt_indices) > Len(reduced_jac)
       THEN /\ opt_pc' = "IndexError"
            /\ UNCHANGED jac_block
       ELSE /\ jac_block' = [k \in DOMAIN opt_indices |->
                                <<opt_indices[k][1], PrintExpr(reduced_jac[k]),
                                  opt_indices[k][2]>>]
            /\ opt_pc' = "generated"
    /\ UNCHANGED <<optimization_level, opt_ode_system, opt_jacobian, opt_indices,
                   opt_replacements, reduced_ode, reduced_jac>>

ZeroCapable ==
    [kind |-> "Piecewise",
     args |-> <<[e |-> IntegerLit(0), c |-> "c1"], [e |-> Sym("a"), c |-> "True"]>>]

Product(a, b) == [kind |-> "Mul", args |-> <<Sym(a), Sym(b)>>]

Reciprocal(base) == [kind |-> "Pow", base |-> base, exp |-> IntegerLit(-1)]

\* The expressions enumerated for both lists.
OptimizerExpressions ==
    {Product("a", "b"),
     AddOf(<<Product("a", "b"), Product("a", "c")>>),
     AddOf(<<Product("a", "b"), Reciprocal(ZeroCapable)>>),
     AddOf(<<Sym("a"), Reciprocal(ZeroCapable)>>),
     AddOf(<<Product("a", "c"), Reciprocal(Sym("a"))>>)}

\* The first n places of an n_rows x n_rows matrix in row-major order.
IndexList(n, n_rows) == [k \in 1..n |-> <<(k - 1) \div n_rows, (k - 1) % n_rows>>]

OptimizerInit ==
    /\ optimization_level \in 0..3
    /\ \E n \in 1..MaxExprs, m \in 0..MaxExprs :
          /\ m <= n * n
          /\ opt_ode_system \in [1..n -> OptimizerExpressions]
          /\ opt_jacobian \in [1..m -> OptimizerExpressions]
          /\ opt_indices = IndexList(m, n)
    /\ opt_replacements = <<>>
    /\ reduced_ode = <<>>
    /\ reduced_jac = <<>>
    /\ jac_block = <<>>
    /\ opt_pc = "optimize_combined"

OptimizerIdle ==
    /\ optimization_level = 2
    /\ opt_ode_system = <<>>
    /\ opt_jacobian = <<>>
    /\ opt_indices = <<>>
    /\ opt_replacements = <<>>
    /\ reduced_ode = <<>>
    /\ reduced_jac = <<>>
    /\ jac_block = <<>>
    /\ opt_pc = "idle"

OptimizerNext ==
    \/ OptimizeCombined
    \/ GenerateJacobian

\* The reduction of one input expression at the optimizer's level: the
\* expression itself, its simplification, or the expression with the terms
\* shared by the two lists replaced by their temporaries.
ReductionOf(e) ==
    IF optimization_level = 0 THEN e
    ELSE IF optimization_level = 1 THEN Simplify(e)
    ELSE CseReduce(e, CseReplacements(opt_ode_system \o opt_jacobian))

\* C19: at every level 0..3, optimize_combined returns one replacement list
\* (a temporary per pair, none at levels 0 and 1), a reduced ODE list as long
\* as the ODE list and a reduced Jacobian list as long as the Jacobian list;
\* the k-th reduced Jacobian entry is the reduction of the k-th Jacobian
\* entry, and generate_jacobian prints it with the k-th (row, col) index.
C19_CombinedSplit ==
    opt_pc \in {"generate_jacobian", "generated", "IndexError"} =>
        /\ optimization_level \in 0..3
        /\ opt_replacements \in Seq(Range(opt_replacements))
        /\ \A k \in DOMAIN opt_replacements :
              /\ opt_replacements[k][1] = Sym(TempNames[k])
              /\ Len(opt_replacements[k]) = 2
        /\ optimization_level < 2 => opt_replacements = <<>>
        /\ Len(reduced_ode) = Len(opt_ode_system)
        /\ Len(reduced_jac) = Len(opt_jacobian)
        /\ \A k \in DOMAIN reduced_ode : reduced_ode[k] = ReductionOf(opt_ode_system[k])
        /\ \A k \in DOMAIN reduced_jac : reduced_jac[k] = ReductionOf(opt_jacobian[k])
        /\ opt_pc # "IndexError"
        /\ opt_pc = "generated" =>
              /\ Len(jac_block) = Len(opt_indices)
              /\ \A k \in DOMAIN jac_block :
                    jac_block[k] = <<opt_indices[k][1],
                                     PrintExpr(ReductionOf(opt_jacobian[k])),
                                     opt_indices[k][2]>>

C19_Witness ==
    /\ opt_pc = "generated"
    /\ optimization_level = 3
    /\ Len(opt_ode_system) = 2
    /\ Len(opt_jacobian) = 1
    /\ Len(opt_replacements) = 1
    /\ reduced_jac = <<Sym("x0")>>
    /\ jac_block = <<<<0, <<"x0">>, 0>>>>

\* ------------- optimize: the post-pass over what sympy.cse returned -------------
\* sympy.cse is library code. The specification below starts where it has
\* returned (optimizer.py line 55) with a replacement list in which every
\* expression references earlier temporaries only, and a reduced expression.

\* Lines 163-176: zero_symbols after the for loop has passed replacement i.
RECURSIVE ZeroSymbols(_, _, _)
ZeroSymbols(reps, i, zero_symbols) ==
    IF i > Len(reps) THEN zero_symbols
    ELSE ZeroSymbols(reps, i + 1,
                     IF ExprCanBeZero(reps[i][2]) THEN zero_symbols \cup {reps[i][1]}
                     ELSE zero_symbols)

\* Lines 57-61: safe_replacements = self._ensure_safe_divisions(replacements);
\* return safe_replacements, reduced.
EnsureSafeDivisionsReturn ==
    /\ UNCHANGED notOptimizer
    /\ opt_pc = "cse_returned"
    /\ opt_replacements' = EnsureSafeDivisions(opt_replacements, 1, {}, <<>>)
    /\ opt_pc' = "optimized"
    /\ UNCHANGED <<optimization_level, opt_ode_system, opt_jacobian, opt_indices,
                   reduced_ode, reduced_jac, jac_block>>

\* The temporaries defined before replacement k.
EarlierTemps(k) == {Sym(TempNames[i]) : i \in 1..(k - 1)}

\* The expressions enumerated for replacement k: a Piecewise with a branch
\* valued 0, a product, a reciprocal of a plain symbol and, for every earlier
\* temporary x, b*x, 1/x and 1/(x + a).
ReplacementExprs(k) ==
    {ZeroCapable, Product("a", "b"), Reciprocal(Sym("a"))}
    \cup {[kind |-> "Mul", args |-> <<Sym("b"), x>>] : x \in EarlierTemps(k)}
    \cup {Reciprocal(x) : x \in EarlierTemps(k)}
    \cup {Reciprocal(AddOf(<<x, Sym("a")>>)) : x \in EarlierTemps(k)}

\* The reduced expressions enumerated with n replacements.
ReducedExprs(n) ==
    {Product("a", "b")}
    \cup EarlierTemps(n + 1)
    \cup {Reciprocal(x) : x \in EarlierTemps(n + 1)}

\* optimize at the levels that run CSE (line 48), after sympy.cse returned.
SafeDivisionsInit ==
    /\ optimization_level \in 2..3
    /\ \E n \in 0..MaxReplacements :
          /\ \E f \in [1..n -> ReplacementExprs(n)] :
                /\ \A k \in 1..n : f[k] \in ReplacementExprs(k)
                /\ opt_replacements = [k \in 1..n |-> <<Sym(TempNames[k]), f[k]>>]
          /\ \E e \in ReducedExprs(n) : reduced_ode = <<e>>
    /\ opt_ode_system = <<>>
    /\ opt_jacobian = <<>>
    /\ opt_indices = <<>>
    /\ reduced_jac = <<>>
    /\ jac_block = <<>>
    /\ opt_pc = "cse_returned"

\* The guarded conditional that safe_pow builds (lines 287-290).
IsGuard(e) ==
    /\ e.kind = "Piecewise"
    /\ Len(e.args) = 2
    /\ e.args[1].c = "base != 0"
    /\ e.args[1].e.kind = "Pow"

\* The powers with a negative exponent in e that are not the guarded branch
\* of such a conditional.
RECURSIVE UnguardedPowers(_)
UnguardedPowers(e) ==
    CASE e.kind \in {"Add", "Mul"} -> UNION {UnguardedPowers(e.args[i]) : i \in DOMAIN e.args}
      [] e.kind = "Pow" ->
             (IF IsNegativeNumber(e.exp) THEN {e} ELSE {}) \cup UnguardedPowers(e.base)
      [] e.kind = "Piecewise" ->
             IF IsGuard(e) THEN UnguardedPowers(e.args[1].e.base)
             ELSE UNION {UnguardedPowers(e.args[i].e) : i \in DOMAIN e.args}
      [] OTHER -> {}

\* C23: in _ensure_safe_divisions the zero-capable flag is transitive: when
\* temporary x_i is flagged and the expression of a later temporary x_j
\* references x_i, x_j is flagged too, and no later replacement returned
\* holds an unguarded negative power with base x_j.
C23_ZeroFlagTransitive ==
    [][opt_pc = "cse_returned" =>
          LET zero_symbols == ZeroSymbols(opt_replacements, 1, {})
          IN  \A i, j \in DOMAIN opt_replacements :
                  (/\ i < j
                   /\ opt_replacements[i][1] \in zero_symbols
                   /\ opt_replacements[i][1] \in Subexpressions(opt_replacements[j][2]))
                  => /\ opt_replacements[j][1] \in zero_symbols
                     /\ \A k \in DOMAIN opt_replacements' :
                           k > j =>
                               \A pow \in UnguardedPowers(opt_replacements'[k][2]) :
                                   pow.base # opt_replacements[j][1]]_vars

\* C29: after optimize at level 2 or 3, neither a replacement expression nor
\* a reduced expression returned holds an unguarded negative power whose base
\* is a temporary that the post-pass flagged zero-capable.
C29_NoUnguardedPowerOfZeroTemp ==
    [][opt_pc = "cse_returned" =>
          LET zero_symbols == ZeroSymbols(opt_replacements, 1, {})
              returned == {opt_replacements'[k][2] : k \in DOMAIN opt_replacements'}
                          \cup Range(reduced_ode')
          IN  \A e \in returned :
                  \A pow \in UnguardedPowers(e) : pow.base \notin zero_symbols]_vars

\* ============ _generate_code_blocks and assemble_rust_file ============
\* The rule blocks of the facade are built from the two lists classify_rules
\* returned; the file is the list of its parts, each with the scope it stands
\* in: the body of run_simulation, the derivative closure or the Jacobian
\* closure.

\* code_generator.py lines 239-270: generate_assignment_rules, one let
\* binding per rule ("" for no rule).
GenerateAssignmentRules(rule_list, add_type_annotation) ==
    [i \in DOMAIN rule_list |->
        [let |-> rule_list[i].var, typed |-> add_type_annotation]]

\* facade.py lines 212-224: the dynamic initial assignments that read no
\* assignment rule, and those that read one.
DynamicIaBeforeRules == <<[var |-> "ia"]>>

DynamicIaAfterRules == <<>>

Block(text) == <<[text |-> text]>>

\* facade.py lines 227-273: the dict code_blocks (the blocks that
\* assemble_rust_file places at lines 154-191, and every rule block).
CodeBlocks(static_rules, dynamic_rules) ==
    [key \in {"param_extract", "static_assignment_rules", "assignment_rules",
              "initial_assignments_static", "initial_assignments_dynamic_before",
              "initial_assignments_dynamic_after", "species_extract", "temp_vars",
              "rhs_block", "jac_block"} |->
        CASE key = "static_assignment_rules" -> GenerateAssignmentRules(static_rules, TRUE)
          [] key = "assignment_rules" -> GenerateAssignmentRules(dynamic_rules, FALSE)
          [] key = "initial_assignments_static" -> GenerateAssignmentRules(<<>>, FALSE)
          [] key = "initial_assignments_dynamic_before" ->
                GenerateAssignmentRules(DynamicIaBeforeRules, FALSE)
          [] key = "initial_assignments_dynamic_after" ->
                GenerateAssignmentRules(DynamicIaAfterRules, FALSE)
          [] OTHER -> Block(key)]

\* components.get(key, "").
ComponentsGet(c, key) == IF key \in DOMAIN c THEN c[key] ELSE <<>>

Part(scope, key, c) == [scope |-> scope, key |-> key, code |-> ComponentsGet(c, key)]

\* template_manager.py lines 154-191: the blocks appended between the
\* parameter parsing and the init function, in order.
TemplateParts(c) ==
    <<Part("run_simulation", "param_extract", c),
      Part("run_simulation", "assignment_rules", c),
      Part("run_simulation", "initial_assignments", c),
      Part("run_simulation", "root_fn", c),
      Part("rhs", "species_extract", c),
      Part("rhs", "temp_vars", c),
      Part("rhs", "rhs_block", c),
      Part("jac", "species_extract", c),
      Part("jac", "temp_vars", c),
      Part("jac", "jac_block", c)>>

\* facade.py lines 210 and 227-273: the code blocks, from the lists that
\* classify_rules returned.
BuildCodeBlocks ==
    /\ UNCHANGED notAssembler
    /\ asm_pc = "code_blocks"
    /\ da_pc = "done"
    /\ components' = CodeBlocks(sorted_rules, dynamic_list)
    /\ asm_pc' = "assemble"
    /\ UNCHANGED template_parts

\* facade.py lines 137-140 and template_manager.py lines 52-271.
AssembleRustFile ==
    /\ UNCHANGED notAssembler
    /\ asm_pc = "assemble"
    /\ template_parts' = TemplateParts(components)
    /\ asm_pc' = "assembled"
    /\ UNCHANGED components

AssemblerInit ==
    /\ components = <<>>
    /\ template_parts = <<>>
    /\ asm_pc = "code_blocks"

AssemblerIdle ==
    /\ components = <<>>
    /\ template_parts = <<>>
    /\ asm_pc = "idle"

AssemblerNext ==
    \/ BuildCodeBlocks
    \/ AssembleRustFile

\* The places of the file where a let binding of the variable v stands:
\* <<part, line>>.
BindingsOf(v) ==
    {pl \in (DOMAIN template_parts) \X (1..MaxRules) :
        /\ pl[2] \in DOMAIN template_parts[pl[1]].code
        /\ "let" \in DOMAIN template_parts[pl[1]].code[pl[2]]
        /\ template_parts[pl[1]].code[pl[2]].let = v}

FirstPartOf(scope) ==
    CHOOSE i \in DOMAIN template_parts :
        /\ template_parts[i].scope = scope
        /\ \A j \in 1..(i - 1) : template_parts[j].scope # scope

\* The variable v is bound in the closure, after its species extraction.
BoundInClosure(v, scope) ==
    \E pl \in BindingsOf(v) :
        /\ template_parts[pl[1]].scope = scope
        /\ \E j \in 1..(pl[1] - 1) :
              template_parts[j].scope = scope /\ template_parts[j].key = "species_extract"

\* C20: in the assembled file every rule classified static is bound exactly
\* once, before the derivative and Jacobian closures; every rule classified
\* dynamic is bound inside the derivative closure and inside the Jacobian
\* closure, after the state extraction; every binding of a rule block that
\* the facade generated stands in the file.
C20_RulePlacement ==
    asm_pc = "assembled" =>
        /\ \A i \in DOMAIN sorted_rules :
              /\ Cardinality(BindingsOf(sorted_rules[i].var)) = 1
              /\ \A pl \in BindingsOf(sorted_rules[i].var) :
                    pl[1] < FirstPartOf("rhs") /\ pl[1] < FirstPartOf("jac")
        /\ \A i \in DOMAIN dynamic_list :
              /\ BoundInClosure(dynamic_list[i].var, "rhs")
              /\ BoundInClosure(dynamic_list[i].var, "jac")
        /\ \A key \in {"static_assignment_rules", "assignment_rules"} :
              \A i \in DOMAIN components[key] :
                  BindingsOf(components[key][i].let) # {}

\* ============= the preprocessing stages of _parse_formula_string =============
\* A formula string is a list of tokens: identifiers (or the pieces of one),
\* operators, parentheses, commas and blanks. "**" is two "*" in a row.

\* Lines 356-378: the unit names.
Units ==
    {"dimensionless", "litre", "liter", "mole", "gram", "second", "minute", "hour",
     "day", "kilogram", "milligram", "microgram", "millilitre", "milliliter",
     "nanomole", "picomole", "micromole", "millimole", "per_second", "per_minute",
     "per_hour"}

\* flags=re.IGNORECASE, for the spellings enumerated.
LowerCase(tok) == IF tok = "Mole" THEN "mole" ELSE tok

\* \b on both sides of token i: no piece of an identifier next to it.
WordBoundaries(text, i) ==
    /\ i = 1 \/ ~IsWordPiece(text[i - 1])
    /\ i = Len(text) \/ ~IsWordPiece(text[i + 1])

\* Lines 382-383: every re.sub(rf"\b{unit}\b", "", expr); the unit names are
\* whole identifiers, so the order of the substitutions changes nothing.
RECURSIVE StripUnits(_, _)
StripUnits(text, i) ==
    IF i > Len(text) THEN <<>>
    ELSE (IF LowerCase(text[i]) \in Units /\ WordBoundaries(text, i) THEN <<>> ELSE <<text[i]>>)
         \o StripUnits(text, i + 1)

POWER_PLACEHOLDER == "__POWER_OP__"

\* Line 412: expr.replace("**", POWER_PLACEHOLDER), left to right.
RECURSIVE ProtectPower(_)
ProtectPower(text) ==
    IF Len(text) < 2 THEN text
    ELSE IF text[1] = "*" /\ text[2] = "*"
         THEN <<POWER_PLACEHOLDER>> \o ProtectPower(SubSeq(text, 3, Len(text)))
         ELSE <<text[1]>> \o ProtectPower(Tail(text))

\* Line 427: expr.replace(POWER_PLACEHOLDER, "**").
RECURSIVE RestorePower(_)
RestorePower(text) ==
    IF text = <<>> THEN <<>>
    ELSE (IF Head(text) = POWER_PLACEHOLDER THEN <<"*", "*">> ELSE <<Head(text)>>)
         \o RestorePower(Tail(text))

\* The end of the run of blanks that starts at position i (i itself when
\* there is none): the position after \s* matched greedily.
RECURSIVE SkipBlanks(_, _)
SkipBlanks(text, i) ==
    IF i <= Len(text) /\ text[i] = " " THEN SkipBlanks(text, i + 1) ELSE i

\* The start of the run of blanks that ends before position i.
RECURSIVE BlanksBefore(_, _)
BlanksBefore(text, i) ==
    IF i > 1 /\ text[i - 1] = " " THEN BlanksBefore(text, i - 1) ELSE i

\* Line 415: re.sub(r"\s*[\*\+\-\/]\s*$", "", expr).
RemoveTrailingOperator(text) ==
    LET last == CHOOSE i \in 0..Len(text) :
                    /\ \A j \in (i + 1)..Len(text) : text[j] = " "
                    /\ i = 0 \/ text[i] # " "
    IN  IF last > 0 /\ text[last] \in Operators
        THEN SubSeq(text, 1, BlanksBefore(text, last) - 1)
        ELSE text

\* Line 418: re.sub(r"^\s*[\*\+\-\/]\s*", "", expr).
RemoveLeadingOperator(text) ==
    LET first == SkipBlanks(text, 1)
    IN  IF first <= Len(text) /\ text[first] \in Operators
        THEN SubSeq(text, SkipBlanks(text, first + 1), Len(text))
        ELSE text

\* The match of \s*[op]\s*[op]\s* at position i: the position after it, 0
\* when there is no match; same_operator asks for the back-reference \1.
OperatorPairEnd(text, i, same_operator) ==
    LET first == SkipBlanks(text, i)
        second == SkipBlanks(text, first + 1)
    IN  IF /\ first <= Len(text)
           /\ text[first] \in Operators
           /\ second <= Len(text)
           /\ text[second] \in Operators
           /\ same_operator => text[second] = text[first]
        THEN SkipBlanks(text, second + 1)
        ELSE 0

\* Line 421: re.sub(r"\s*([\*\+\-\/])\s*\1\s*", r" \1 ", expr), from
\* position i on.
RECURSIVE MergeDuplicateOperators(_, _)
MergeDuplicateOperators(text, i) ==
    IF i > Len(text) THEN <<>>
    ELSE LET end == OperatorPairEnd(text, i, TRUE)
         IN  IF end # 0
             THEN <<" ", text[SkipBlanks(text, i)], " ">> \o MergeDuplicateOperators(text, end)
             ELSE <<text[i]>> \o MergeDuplicateOperators(text, i + 1)

\* Line 424: re.sub(r"\s*[\*\+\-\/]\s*[\*\+\-\/]\s*", " ", expr), from
\* position i on.
RECURSIVE RemoveOperatorPairs(_, _)
RemoveOperatorPairs(text, i) ==
    IF i > Len(text) THEN <<>>
    ELSE LET end == OperatorPairEnd(text, i, FALSE)
         IN  IF end # 0
             THEN <<" ">> \o RemoveOperatorPairs(text, end)
             ELSE <<text[i]>> \o RemoveOperatorPairs(text, i + 1)

\* Lines 430-431: re.sub(r"\s+", " ", expr) and strip().
RECURSIVE CollapseBlanks(_, _)
CollapseBlanks(text, i) ==
    IF i > Len(text) THEN <<>>
    ELSE IF text[i] = " "
         THEN (IF i = 1 \/ SkipBlanks(text, i) > Len(text) THEN <<>> ELSE <<" ">>)
              \o CollapseBlanks(text, SkipBlanks(text, i))
         ELSE <<text[i]>> \o CollapseBlanks(text, i + 1)

\* Lines 391-433: _cleanup_dangling_operators.
CleanupDanglingOperators(text) ==
    LET protected == ProtectPower(text)
        trailing == RemoveTrailingOperator(protected)
        leading == RemoveLeadingOperator(trailing)
        merged == MergeDuplicateOperators(leading, 1)
        paired == RemoveOperatorPairs(merged, 1)
    IN  CollapseBlanks(RestorePower(paired), 1)

\* Lines 347-389: _remove_units.
RemoveUnits(text) == CleanupDanglingOperators(StripUnits(text, 1))

\* Lines 447-449: _transform_piecewise; str.replace finds "piecewise" inside
\* a longer identifier as well.
RECURSIVE TransformPiecewise(_)
TransformPiecewise(text) ==
    IF text = <<>> THEN <<>>
    ELSE (IF Head(text) = "piecewise" THEN <<"sbml_", "piecewise">> ELSE <<Head(text)>>)
         \o TransformPiecewise(Tail(text))

\* re.sub(rf"\b{keyword}\s*\(", f"{function}(", expr), from position i on.
RECURSIVE SubKeywordCall(_, _, _, _)
SubKeywordCall(text, i, keyword, function) ==
    IF i > Len(text) THEN <<>>
    ELSE LET paren == SkipBlanks(text, i + 1)
         IN  IF /\ text[i] = keyword
                /\ i = 1 \/ ~IsWordPiece(text[i - 1])
                /\ paren <= Len(text)
                /\ text[paren] = "("
             THEN <<function, "(">> \o SubKeywordCall(text, paren + 1, keyword, function)
             ELSE <<text[i]>> \o SubKeywordCall(text, i + 1, keyword, function)

\* Lines 451-473: _transform_logical_keywords.
TransformLogicalKeywords(text) ==
    SubKeywordCall(SubKeywordCall(text, 1, "and", "And"), 1, "or", "Or")

\* function_inliner.py lines 44-79: inline as a function of the expression.
RECURSIVE Inline(_, _, _)
Inline(expr, fns, d) ==
    IF d < max_depth
    THEN LET r == InlineOne(expr, fns, 1)
         IN  IF r.found THEN Inline(r.expression, fns, d + 1) ELSE expr
    ELSE expr

\* The function table of the parser's inliner: f(x) = x + k.
ParserFunctions == <<[id |-> "f", arguments |-> <<"x">>, mathString |-> <<"x", "+", "k">>]>>

Stages == {"remove_units", "inline", "transform_piecewise", "transform_logical_keywords"}

\* Lines 320-330: one stage applied to a formula string.
ApplyStage(stage, text) ==
    CASE stage = "remove_units" -> RemoveUnits(text)
      [] stage = "inline" -> Inline(text, ParserFunctions, 0)
      [] stage = "transform_piecewise" -> TransformPiecewise(text)
      [] stage = "transform_logical_keywords" -> TransformLogicalKeywords(text)

\* The stage is applied to the last text.
Preprocess ==
    /\ UNCHANGED notPreprocess
    /\ pp_pc = "apply"
    /\ pp_texts' = Append(pp_texts, ApplyStage(pp_stage, pp_texts[Len(pp_texts)]))
    /\ pp_pc' = IF Len(pp_texts) = 2 THEN "applied" ELSE "apply"
    /\ UNCHANGED pp_stage

\* The formula strings of up to n tokens over an identifier, a unit name, two
\* operators and the blank, no two identifiers in a row.
FormulaTokens == {"a", "second", "*", "-", " "}

FormulaStrings(n) ==
    UNION {{t \in [1..m -> FormulaTokens] :
               \A i \in 1..(m - 1) : ~(IsWordPiece(t[i]) /\ IsWordPiece(t[i + 1]))} :
           m \in 0..n}

StageInputs(stage) ==
    CASE stage = "remove_units" ->
            FormulaStrings(MaxTokens)
            \cup {<<"a", " ", "*", " ", "Mole", " ", "/", " ", "litre">>,
                  <<"a", " ", "*", " ", "-", "b">>, <<"a", " ", "-", " ", "-", "b">>,
                  <<"-", "x", " ", "+", " ", "y">>, <<"a", "*", "*", "2", " ", "*", " ", "b">>}
      [] stage = "inline" -> InlineExpressions
      [] stage = "transform_piecewise" ->
            {<<"a">>, <<"piecewise", "(", "a", ",", "c", ",", "b", ")">>,
             <<"sbml_", "piecewise", "(", "a", ")">>}
      [] stage = "transform_logical_keywords" ->
            {<<"a">>, <<"and", "(", "a", ",", "b", ")">>, <<"or", " ", "(", "a", ",", "b", ")">>,
             <<"st", "and", "(", "a", ")">>, <<"and", "(", "or", "(", "a", ")", ")">>}

PreprocessInit ==
    /\ pp_stage \in Stages
    /\ \E text \in StageInputs(pp_stage) : pp_texts = <<text>>
    /\ pp_pc = "apply"

PreprocessIdle ==
    /\ pp_stage = "remove_units"
    /\ pp_texts = <<>>
    /\ pp_pc = "idle"

PreprocessNext == Preprocess

\* C21: every preprocessing stage is idempotent: applied to its own result,
\* it returns that result.
C21_StagesIdempotent ==
    pp_pc = "applied" => pp_texts[3] = pp_texts[2]

\* The tokens of a text that are not blanks.
RECURSIVE WithoutBlanks(_)
WithoutBlanks(text) ==
    IF text = <<>> THEN <<>>
    ELSE (IF Head(text) = " " THEN <<>> ELSE <<Head(text)>>) \o WithoutBlanks(Tail(text))

HasUnitToken(text) == \E i \in DOMAIN text : LowerCase(text[i]) \in Units

\* C26: for a formula string without a unit name, _remove_units changes
\* nothing but blanks: every operator is kept, a leading or doubled unary
\* minus and every "**" included.
C26_UnitFreeTextKept ==
    (/\ pp_stage = "remove_units"
     /\ Len(pp_texts) >= 2
     /\ ~HasUnitToken(pp_texts[1]))
    => WithoutBlanks(pp_texts[2]) = WithoutBlanks(pp_texts[1])

\* ============== SbmlToRustConverter.__init__: the parameter map ==============

\* dict[key] = value.
DictSet(map, key, value) ==
    [x \in DOMAIN map \cup {key} |-> IF x = key THEN value ELSE map[x]]

\* Line 56: f"{rxn_id}_{param_id}".
QualifiedName(rxn_id, param_id) == rxn_id \o "_" \o param_id

\* Lines 52-60: the inner for loop over the local parameters of one reaction,
\* from parameter i on.
RECURSIVE MergeLocalParams(_, _, _, _)
MergeLocalParams(map, rxn_id, local_params, i) ==
    IF i > Len(local_params) THEN map
    ELSE LET param_id == local_params[i][1]
             param_value == local_params[i][2]
         IN  MergeLocalParams(
                 IF param_id \in DOMAIN map
                 THEN DictSet(map, QualifiedName(rxn_id, param_id), param_value)
                 ELSE DictSet(map, param_id, param_value),
                 rxn_id, local_params, i + 1)

\* Lines 50-60: the for loop over the first n reactions, in dict order.
RECURSIVE MergeReactions(_, _, _)
MergeReactions(parameters, rxns, n) ==
    IF n = 0 THEN parameters
    ELSE MergeLocalParams(MergeReactions(parameters, rxns, n - 1),
                          rxns[n].id, rxns[n].rxnParameters, 1)

\* Lines 46-60: self.params_map is built from the global parameters and the
\* local parameters of every reaction.
BuildParamsMap ==
    /\ UNCHANGED notMerge
    /\ merge_pc = "init"
    /\ params_map' = MergeReactions(init_model_data.parameters,
                                    init_model_data.reactions,
                                    Len(init_model_data.reactions))
    /\ merge_pc' = "merged"
    /\ UNCHANGED init_model_data

\* The reaction ids and, for reaction n, the lists of local parameters that
\* are enumerated: none, k, Km or both, each with a value of its own.
ReactionIds == <<"R1", "R2", "R3", "R4">>

LocalValue(n, param_id) == 10 * n + (IF param_id = "k" THEN 1 ELSE 2)

LocalParamLists(n) ==
    {[i \in DOMAIN names |-> <<names[i], LocalValue(n, names[i])>>] :
        names \in {<<>>, <<"k">>, <<"Km">>, <<"k", "Km">>, <<"Km", "k">>}}

\* The global parameters enumerated: none, k, a parameter whose name is the
\* qualified name of a local one, or both.
GlobalParams ==
    {<<>>, [x \in {"k"} |-> 1], [x \in {"R2_k"} |-> 5],
     [x \in {"k", "R2_k"} |-> IF x = "k" THEN 1 ELSE 5]}

MergeInit ==
    /\ \E n \in 1..MaxMergedReactions :
          \E f \in [1..n -> LocalParamLists(1) \cup LocalParamLists(2)
                              \cup LocalParamLists(3) \cup LocalParamLists(4)] :
              /\ \A r \in 1..n : f[r] \in LocalParamLists(r)
              /\ \E g \in GlobalParams :
                    init_model_data =
                        [parameters |-> g,
                         reactions |-> [r \in 1..n |->
                                           [id |-> ReactionIds[r], rxnParameters |-> f[r]]]]
    /\ params_map = <<>>
    /\ merge_pc = "init"

MergeIdle ==
    /\ init_model_data = <<>>
    /\ params_map = <<>>
    /\ merge_pc = "idle"

MergeNext == BuildParamsMap

\* Lines 69 and 77, ode_builder.py line 61, code_generator.py line 133: the
\* rate law is parsed as written, so its symbol p is the parameter named p,
\* read from the field p, whose value is params_map[p].
RateLawValue(param_id) == params_map[param_id]

\* The parameter map after the first n reactions have been merged.
MapAfterReaction(n) ==
    MergeReactions(init_model_data.parameters, init_model_data.reactions, n)

\* C24: a rate law that references a local parameter p of its own reaction is
\* generated with that reaction's value of p, also when the name p is already
\* in the parameter map; and merging the local parameters of a reaction never
\* changes the value of a name that was in the map before.
C24_LocalParameterValues ==
    merge_pc = "merged" =>
        /\ \A r \in DOMAIN init_model_data.reactions :
              \A i \in DOMAIN init_model_data.reactions[r].rxnParameters :
                  LET local == init_model_data.reactions[r].rxnParameters[i]
                  IN  RateLawValue(local[1]) = local[2]
        /\ \A r \in DOMAIN init_model_data.reactions :
              \A name \in DOMAIN MapAfterReaction(r - 1) :
                  MapAfterReaction(r)[name] = MapAfterReaction(r - 1)[name]

\* ================ RustBlockGenerator: the result vectors ================
\* An id is the list of its characters.

Digits == {"0", "1", "2", "3", "4", "5", "6", "7", "8", "9"}

UpperCase == {"A", "S"}

\* str.lower() on one character, for the letters enumerated.
LowerChar(c) == IF c = "A" THEN "a" ELSE IF c = "S" THEN "s" ELSE c

\* [a-zA-Z0-9_], for the characters enumerated.
IsIdentifierChar(c) == c \in Digits \cup UpperCase \cup {"a", "s", "_"}

\* validators.py lines 31-34: to_rust_identifier.
to_rust_identifier(name) ==
    LET clean == [i \in DOMAIN name |-> IF IsIdentifierChar(name[i]) THEN name[i] ELSE "_"]
        prefixed == IF clean # <<>> /\ clean[1] \in Digits THEN <<"_">> \o clean ELSE clean
    IN  [i \in DOMAIN prefixed |-> LowerChar(prefixed[i])]

\* Lines 152-157: generate_result_vectors_init; one "let mut <id> = Vec::new();"
\* per species, given by its identifier.
generate_result_vectors_init(species) ==
    [i \in DOMAIN species |-> [let_mut |-> to_rust_identifier(species[i])]]

\* Lines 175-180: generate_result_pushes; "<id>.push(solver.state().y[i]);".
generate_result_pushes(species) ==
    [i \in DOMAIN species |-> [vector |-> to_rust_identifier(species[i]), y |-> i - 1]]

\* Lines 193-200: generate_hashmap_inserts;
\* species_map.insert("<id>".to_string(), <id>);
generate_hashmap_inserts(species) ==
    [i \in DOMAIN species |->
        [key |-> to_rust_identifier(species[i]), value |-> to_rust_identifier(species[i])]]

\* facade.py lines 259-270: the four result blocks of _generate_code_blocks.
GenerateResultBlocks ==
    /\ UNCHANGED notResult
    /\ result_pc = "generate"
    /\ result_blocks' =
          [result_vectors_init |-> generate_result_vectors_init(result_species_list),
           initial_pushes |-> generate_result_pushes(result_species_list),
           loop_pushes |-> generate_result_pushes(result_species_list),
           map_inserts |-> generate_hashmap_inserts(result_species_list)]
    /\ result_pc' = "generated"
    /\ UNCHANGED result_species_list

\* The species ids enumerated: A, a, S1, s1, S-1, S_1, 1A and _1a.
ResultSpeciesIds ==
    {<<"A">>, <<"a">>, <<"S", "1">>, <<"s", "1">>, <<"S", "-", "1">>,
     <<"S", "_", "1">>, <<"1", "A">>, <<"_", "1", "a">>}

\* The species of a model are the keys of a dict: pairwise distinct ids.
ResultInit ==
    /\ \E n \in 1..MaxSpecies :
          \E ids \in [1..n -> ResultSpeciesIds] :
              /\ \A i, j \in 1..n : i # j => ids[i] # ids[j]
              /\ result_species_list = ids
    /\ result_blocks = <<>>
    /\ result_pc = "generate"

ResultIdle ==
    /\ result_species_list = <<>>
    /\ result_blocks = <<>>
    /\ result_pc = "idle"

ResultNext == GenerateResultBlocks

\* C30: for pairwise distinct species ids, the result vectors are declared
\* under pairwise distinct identifiers and inserted into the result map under
\* pairwise distinct keys, each species with a vector and a key of its own.
C30_DistinctResultIdentifiers ==
    result_pc = "generated" =>
        \A i, j \in DOMAIN result_species_list :
            i # j =>
                /\ result_blocks.result_vectors_init[i].let_mut
                       # result_blocks.result_vectors_init[j].let_mut
                /\ result_blocks.loop_pushes[i].vector # result_blocks.loop_pushes[j].vector
                /\ result_blocks.map_inserts[i].key # result_blocks.map_inserts[j].key

\* ============================== specifications ==============================

\* DependencyAnalyzer.classify_rules on every enumerated input.
Init == AnalyzerInit /\ context = <<>> /\ SorterIdle /\ OdeIdle /\ ConvIdle /\ InlinerIdle
    /\ PiecewiseIdle
    /\ PrinterIdle
    /\ JacobianIdle
    /\ OptimizerIdle
    /\ AssemblerIdle
    /\ PreprocessIdle
    /\ MergeIdle
    /\ ResultIdle

Next == AnalyzerNext

Spec == Init /\ [][Next]_vars

\* AssignmentRuleProcessor.sort_assignment_rules on every enumerated input.
SortInit == SorterInit /\ AnalyzerIdle /\ OdeIdle /\ ConvIdle /\ InlinerIdle
    /\ PiecewiseIdle
    /\ PrinterIdle
    /\ JacobianIdle
    /\ OptimizerIdle
    /\ AssemblerIdle
    /\ PreprocessIdle
    /\ MergeIdle
    /\ ResultIdle

SortNext == SorterNext

SpecSort == SortInit /\ [][SortNext]_vars

\* OdeSystemBuilder.build_ode_system on every enumerated input.
OdeSpecInit == OdeInit /\ AnalyzerIdle /\ SorterIdle /\ ConvIdle /\ InlinerIdle
    /\ PiecewiseIdle
    /\ PrinterIdle
    /\ JacobianIdle
    /\ OptimizerIdle
    /\ AssemblerIdle
    /\ PreprocessIdle
    /\ MergeIdle
    /\ ResultIdle

OdeSpecNext == OdeNext

SpecOde == OdeSpecInit /\ [][OdeSpecNext]_vars

\* ParseSBMLFile followed by SbmlToRustConverter.convert on every enumerated
\* document.
ConvertInit == ConvInit /\ AnalyzerIdle /\ SorterIdle /\ OdeIdle /\ InlinerIdle
    /\ PiecewiseIdle
    /\ PrinterIdle
    /\ JacobianIdle
    /\ OptimizerIdle
    /\ AssemblerIdle
    /\ PreprocessIdle
    /\ MergeIdle
    /\ ResultIdle

ConvertNext == ConvNext

SpecConvert == ConvertInit /\ [][ConvertNext]_vars

\* FunctionInliner.inline on every enumerated table and expression.
InlineInit ==
    InlinerInit /\ context = <<>> /\ AnalyzerIdle /\ SorterIdle /\ OdeIdle /\ ConvIdle
    /\ PiecewiseIdle
    /\ PrinterIdle
    /\ JacobianIdle
    /\ OptimizerIdle
    /\ AssemblerIdle
    /\ PreprocessIdle
    /\ MergeIdle
    /\ ResultIdle

InlineNext == InlinerNext

SpecInline == InlineInit /\ [][InlineNext]_vars

\* sbml_piecewise on every enumerated argument list.
PiecewiseSpecInit ==
    PiecewiseInit /\ context = <<>> /\ AnalyzerIdle /\ SorterIdle /\ OdeIdle /\ ConvIdle
    /\ InlinerIdle
    /\ PrinterIdle
    /\ JacobianIdle
    /\ OptimizerIdle
    /\ AssemblerIdle
    /\ PreprocessIdle
    /\ MergeIdle
    /\ ResultIdle

PiecewiseSpecNext == PiecewiseNext

SpecPiecewise == PiecewiseSpecInit /\ [][PiecewiseSpecNext]_vars

\* RustCodeGenerator.generate on every enumerated expression.
PrintSpecInit ==
    /\ context = <<>>
    /\ AnalyzerIdle
    /\ SorterIdle
    /\ OdeIdle
    /\ ConvIdle
    /\ InlinerIdle
    /\ PiecewiseIdle
    /\ PrinterInit
    /\ JacobianIdle
    /\ OptimizerIdle
    /\ AssemblerIdle
    /\ PreprocessIdle
    /\ MergeIdle
    /\ ResultIdle

PrintSpecNext == PrinterNext

SpecPrint == PrintSpecInit /\ [][PrintSpecNext]_vars

\* JacobianBuilder.compute_sparse_jacobian on every enumerated ODE system.
JacobianSpecInit ==
    /\ context = <<>>
    /\ AnalyzerIdle
    /\ SorterIdle
    /\ OdeIdle
    /\ ConvIdle
    /\ InlinerIdle
    /\ PiecewiseIdle
    /\ PrinterIdle
    /\ JacobianInit
    /\ OptimizerIdle
    /\ AssemblerIdle
    /\ PreprocessIdle
    /\ MergeIdle
    /\ ResultIdle

JacobianSpecNext == JacobianNext

SpecJacobian == JacobianSpecInit /\ [][JacobianSpecNext]_vars

\* SymbolicOptimizer.optimize_combined followed by generate_jacobian on every
\* enumerated pair of lists and level.
OptimizerSpecInit ==
    /\ context = <<>>
    /\ AnalyzerIdle
    /\ SorterIdle
    /\ OdeIdle
    /\ ConvIdle
    /\ InlinerIdle
    /\ PiecewiseIdle
    /\ PrinterIdle
    /\ JacobianIdle
    /\ OptimizerInit
    /\ AssemblerIdle
    /\ PreprocessIdle
    /\ MergeIdle
    /\ ResultIdle

OptimizerSpecNext == OptimizerNext

SpecOptimizer == OptimizerSpecInit /\ [][OptimizerSpecNext]_vars

\* optimize from the return of sympy.cse on, for every enumerated CSE result.
SafeDivisionsSpecInit ==
    /\ context = <<>>
    /\ AnalyzerIdle
    /\ SorterIdle
    /\ OdeIdle
    /\ ConvIdle
    /\ InlinerIdle
    /\ PiecewiseIdle
    /\ PrinterIdle
    /\ JacobianIdle
    /\ SafeDivisionsInit
    /\ AssemblerIdle
    /\ PreprocessIdle
    /\ MergeIdle
    /\ ResultIdle

SafeDivisionsSpecNext == EnsureSafeDivisionsReturn

SpecSafeDivisions == SafeDivisionsSpecInit /\ [][SafeDivisionsSpecNext]_vars

\* classify_rules on every enumerated input, then the code blocks and the
\* file assembled from its result.
AssembleSpecInit ==
    /\ context = <<>>
    /\ AnalyzerInit
    /\ SorterIdle
    /\ OdeIdle
    /\ ConvIdle
    /\ InlinerIdle
    /\ PiecewiseIdle
    /\ PrinterIdle
    /\ JacobianIdle
    /\ OptimizerIdle
    /\ AssemblerInit
    /\ PreprocessIdle
    /\ MergeIdle
    /\ ResultIdle

AssembleSpecNext ==
    \/ ClassifyPass
    \/ StartSort
    \/ SortPass
    \/ ClassifyReturn
    \/ BuildCodeBlocks
    \/ AssembleRustFile

SpecAssemble == AssembleSpecInit /\ [][AssembleSpecNext]_vars

\* Each preprocessing stage applied twice to every enumerated formula string.
PreprocessSpecInit ==
    /\ context = <<>>
    /\ AnalyzerIdle
    /\ SorterIdle
    /\ OdeIdle
    /\ ConvIdle
    /\ InlinerIdle
    /\ PiecewiseIdle
    /\ PrinterIdle
    /\ JacobianIdle
    /\ OptimizerIdle
    /\ AssemblerIdle
    /\ PreprocessInit
    /\ MergeIdle
    /\ ResultIdle

PreprocessSpecNext == PreprocessNext

SpecPreprocess == PreprocessSpecInit /\ [][PreprocessSpecNext]_vars

\* The parameter map built by __init__ for every enumerated model.
MergeSpecInit ==
    /\ context = <<>>
    /\ AnalyzerIdle
    /\ SorterIdle
    /\ OdeIdle
    /\ ConvIdle
    /\ InlinerIdle
    /\ PiecewiseIdle
    /\ PrinterIdle
    /\ JacobianIdle
    /\ OptimizerIdle
    /\ AssemblerIdle
    /\ PreprocessIdle
    /\ MergeInit
    /\ ResultIdle

MergeSpecNext == MergeNext

SpecMerge == MergeSpecInit /\ [][MergeSpecNext]_vars

\* The result blocks generated for every enumerated species list.
ResultSpecInit ==
    /\ context = <<>>
    /\ AnalyzerIdle
    /\ SorterIdle
    /\ OdeIdle
    /\ ConvIdle
    /\ InlinerIdle
    /\ PiecewiseIdle
    /\ PrinterIdle
    /\ JacobianIdle
    /\ OptimizerIdle
    /\ AssemblerIdle
    /\ PreprocessIdle
    /\ MergeIdle
    /\ ResultInit

ResultSpecNext == ResultNext

SpecResult == ResultSpecInit /\ [][ResultSpecNext]_vars

====
